---- MODULE Spec2Model ----
(***************************************************************************)
(* Model of the normalisation, scoring, extraction and recommendation core *)
(* of the Fleaflicker dashboard package (src/fleaflicker_dashboard/        *)
(* models.py), and of what stands around it: FleaflickerAPI (api.py), the  *)
(* entry points that recommend (dashboard.py, web.py, tui.py), the TUI's   *)
(* refresh, the web endpoint and the standalone TUI's recommender          *)
(* (src/fleaflicker_tui.py).                                               *)
(*                                                                         *)
(* JSON values are tagged records, so that a lookup can tell an absent key *)
(* from a null, a number, a string or a nested mapping.  Floats are exact  *)
(* rationals here: last_three() is carried in thirds and score() in        *)
(* thirtieths, so 0.7 and 0.3 are the integers 21 and 9 over 30 and the    *)
(* mean of three entries is their sum over 3.  Float rounding is not       *)
(* modelled.                                                               *)
(***************************************************************************)
EXTENDS Integers, Sequences, FiniteSets, TLC

\* ---------------------------------------------------------------- bounds
MaxVal    == 2   \* numbers in a payload range over -MaxVal..MaxVal
MaxDepth  == 2   \* nesting depth of {"value": ...} wrappers around a score
MaxPts    == 4   \* entries of last_x_points
MaxKeys   == 2   \* keys present in one raw record built by the Player spec
MaxRoster == 2   \* roster length given to recommend_upgrades
MaxFree   == 3   \* free-agent pool length given to recommend_upgrades
MaxStack  == 4   \* calls of _score_value the interpreter lets nest, scaled down
MaxCalls  == 3   \* calls of FleaflickerAPI._get followed
MaxRefresh == 3 \* runs of the TUI's refresh_data followed

VARIABLES
    blob,           \* the value handed to _score_value
    sv,             \* what _score_value returned for it (NoResult before the call)
    data,           \* Player.data: the raw record
    out,            \* the six accessors' results for data (NoOut before the call)
    roster,         \* recommend_upgrades' roster argument: a sequence of raw records
    free_agents,    \* recommend_upgrades' free_agents argument
    match_position, \* recommend_upgrades' flag
    result,         \* recommend_upgrades' return value (NotCalled before the call)
    payload,        \* the payload at hand: the endpoint's, then the one extracted from
    rows,           \* the last extraction's outcome (NoRows before any)
    api,            \* FleaflickerAPI: its team id and its fetch_roster call
    earlier,        \* the first outcome of each entry point of the core on the inputs
    frame,          \* _score_value run call by call: the innermost active call
    via,            \* the entry point that called recommend_upgrades, and its filter
    http,           \* the calls of FleaflickerAPI._get so far, each with its outcome
    tui,            \* FleaflickerDashboardApp: its lists, tables, timer and coroutines
    web             \* /api/dashboard: the upstream's answers and the response

\* The variables of the entry points around the core, and the core's.
shell == <<via, http, tui, web>>
core ==
    <<blob, sv, data, out, roster, free_agents, match_position, result,
      payload, rows, api, earlier, frame>>

vars ==
    <<blob, sv, data, out, roster, free_agents, match_position, result,
      payload, rows, api, earlier, frame, via, http, tui, web>>

\* ----------------------------------------------------------- JSON values
ABSENT == "<absent>"   \* dict.get(key) on a missing key
RAISE  == "<raise>"    \* the accessor raised instead of returning

Nums == (0 - MaxVal)..MaxVal

\* A leaf of a score blob.  Python's bool is an int subclass, so True and
\* False pass isinstance(x, (int, float)) with float value 1.0 and 0.0.
NumLeaf(n)  == [kind |-> "num", n |-> n]
NoneLeaf    == [kind |-> "none", n |-> 0]
Leaves ==
    {NumLeaf(n) : n \in Nums}
        \cup {[kind |-> k, n |-> 0] : k \in {"none", "str", "list", "dict"}}
        \cup {[kind |-> "bool", n |-> b] : b \in {0, 1}}

\* A score blob: `wraps` mappings around `leaf`, outermost first, each holding
\* the next level under its "value" key; an "extra" wrapper has other keys too.
\* A leaf of kind "dict" is a mapping that has no "value" key.
Blob(w, l) == [wraps |-> w, leaf |-> l]
Plain(n)   == Blob(<<>>, NumLeaf(n))
Wrapped(n) == Blob(<<"plain">>, NumLeaf(n))
NoneBlob   == Blob(<<>>, NoneLeaf)

\* ------------------------------------------------------- _score_value
\* A normalizer that reads one level only: a wrapped mapping under "value"
\* is not descended into.
score_value_one_level(score_blob) ==
    IF Len(score_blob.wraps) <= 1 /\ score_blob.leaf.kind \in {"num", "bool"}
    THEN score_blob.leaf.n
    ELSE 0

\* A recursive call on the mapping itself instead of on its "value" entry.
SameBlob(score_blob) == score_blob

\* score_blob["value"] of a mapping that has the key: one level down.
ValueEntry(score_blob) == Blob(Tail(score_blob.wraps), score_blob.leaf)

RECURSIVE _score_value(_)
_score_value(score_blob) ==
    IF score_blob.wraps = <<>>
    THEN IF score_blob.leaf.kind \in {"num", "bool"}
         THEN score_blob.leaf.n                      \* float(score_blob)
         ELSE 0                                      \* 0.0
    ELSE _score_value(ValueEntry(score_blob))

\* ------------------------------------------------------------ raw record
SubKeys ==
    {"name_full", "nameFull", "name", "position", "pro_team_abbreviation",
     "proTeamAbbreviation", "pro_team", "team_abbreviation", "teamAbbreviation"}
\* Keys of the record itself: the ones name and position read, and the team
\* abbreviation under the first two spellings team looks up on the sub-object.
TeamKeys == {"pro_team_abbreviation", "proTeamAbbreviation"}
TopKeys  == {"name_full", "nameFull", "displayName", "name", "position"} \cup TeamKeys
StrVals == {"", "A", "B"}

\* pro_player / proPlayer: absent, null, a mapping (f gives its keys) or,
\* malformed, a non-empty string.
Sub(k, f)  == [kind |-> k, f |-> f]
NoFields   == [k \in SubKeys |-> ABSENT]
AbsentSub  == Sub("absent", NoFields)
EmptyDict  == Sub("dict", NoFields)

\* A number-valued key: absent, null or a number.
NumVal(k, n) == [kind |-> k, n |-> n]
AbsentNum    == NumVal("absent", 0)
\* projections.weekly / .season: absent, null, a bare number, or a mapping
\* whose "value" key is `value`.
Period(k, n, v) == [kind |-> k, n |-> n, value |-> v]
AbsentPeriod    == Period("absent", 0, AbsentNum)
\* projections / projection: absent, null or a mapping.
ProjObj(k, v, w, s) == [kind |-> k, value |-> v, weekly |-> w, season |-> s]
AbsentProj          == ProjObj("absent", AbsentNum, AbsentPeriod, AbsentPeriod)
\* last_x_points: absent, null or a list of entries; an entry is a mapping
\* that has a "value" key (has = TRUE) holding a score blob, or has none.
Entry(h, b) == [has |-> h, value |-> b]
Points(k, e) == [kind |-> k, entries |-> e]
AbsentPoints == Points("absent", <<>>)

EmptyRecord ==
    [pro_player    |-> AbsentSub,
     proPlayer     |-> AbsentSub,
     top           |-> [k \in TopKeys |-> ABSENT],
     projections   |-> AbsentProj,
     projection    |-> AbsentProj,
     last_x_points |-> AbsentPoints]

\* ------------------------------------------------------ Python helpers
\* Truthiness of what dict.get returned for a string-valued key.
TruthyStr(s) == s # ABSENT /\ s # ""
\* Truthiness of a pro_player value: a mapping is truthy iff it has a key.
TruthySub(s) ==
    \/ s.kind = "str"
    \/ s.kind = "dict" /\ \E k \in SubKeys : s.f[k] # ABSENT
TruthyPeriod(p) ==
    \/ p.kind = "num" /\ p.n # 0
    \/ p.kind = "dict" /\ p.value.kind # "absent"
TruthyProj(p) ==
    p.kind = "dict"
        /\ (p.value.kind # "absent" \/ p.weekly.kind # "absent" \/ p.season.kind # "absent")

\* a or b or ... or last: the first truthy operand, else the last one.
RECURSIVE OrChain(_, _)
OrChain(operands, last) ==
    IF operands = <<>> THEN last
    ELSE IF TruthyStr(Head(operands)) THEN Head(operands)
    ELSE OrChain(Tail(operands), last)

\* self.data.get("pro_player") or self.data.get("proPlayer") or {}
Pro(d) ==
    IF TruthySub(d.pro_player) THEN d.pro_player
    ELSE IF TruthySub(d.proPlayer) THEN d.proPlayer
    ELSE EmptyDict

\* ------------------------------------------------------------- Player
\* The record's own keys consulted before the sub-object's.
name_top_level_first(d) ==
    LET pro == Pro(d) IN
    IF pro.kind # "dict" THEN RAISE
    ELSE OrChain(<<d.top["name_full"], d.top["nameFull"], d.top["displayName"],
                   d.top["name"], pro.f["name_full"], pro.f["nameFull"],
                   pro.f["name"]>>, "Unknown")

name(d) ==
    LET pro == Pro(d) IN
    IF pro.kind # "dict" THEN RAISE        \* str has no .get
    ELSE OrChain(<<pro.f["name_full"], pro.f["nameFull"], pro.f["name"],
                   d.top["name_full"], d.top["nameFull"], d.top["displayName"],
                   d.top["name"]>>, "Unknown")

position(d) ==
    LET pro == Pro(d) IN
    IF pro.kind # "dict" THEN RAISE
    ELSE OrChain(<<pro.f["position"], d.top["position"]>>, "")

\* pro["pro_team_abbreviation"] in place of pro.get(...): KeyError when absent.
team_subscript(d) ==
    LET pro == Pro(d) IN
    IF pro.kind # "dict" \/ pro.f["pro_team_abbreviation"] = ABSENT THEN RAISE
    ELSE OrChain(<<pro.f["pro_team_abbreviation"], pro.f["proTeamAbbreviation"],
                   pro.f["pro_team"], pro.f["team_abbreviation"],
                   pro.f["teamAbbreviation"]>>, "")

team(d) ==
    LET pro == Pro(d) IN
    IF pro.kind # "dict" THEN RAISE
    ELSE OrChain(<<pro.f["pro_team_abbreviation"], pro.f["proTeamAbbreviation"],
                   pro.f["pro_team"], pro.f["team_abbreviation"],
                   pro.f["teamAbbreviation"]>>, "")

\* A numeric accessor's outcome: a value, or an exception.
Ok(v)  == [ok |-> TRUE, v |-> v]
Raised == [ok |-> FALSE, v |-> 0]

\* projection(): line 56 picks the mapping, 57-61 resolve `value`, 62 converts.
\* `value` is tracked as absent-or-null ("none"), a number, or a mapping.
projection(d) ==
    LET projections ==
            IF TruthyProj(d.projections) THEN d.projections
            ELSE IF d.projection.kind = "absent"
                 THEN ProjObj("dict", AbsentNum, AbsentPeriod, AbsentPeriod)  \* {}
                 ELSE d.projection
    IN  IF projections.kind # "dict" THEN Raised   \* None.get(...)
        ELSE IF projections.value.kind = "num" THEN Ok(projections.value.n)
        ELSE LET picked == IF TruthyPeriod(projections.weekly)
                           THEN projections.weekly
                           ELSE projections.season
             IN  IF picked.kind = "dict"
                 THEN IF picked.value.kind = "num" THEN Ok(picked.value.n) ELSE Ok(0)
                 ELSE IF picked.kind = "num" THEN Ok(picked.n)
                 ELSE Ok(0)

\* values = [_score_value(s.get("value")) for s in stats]
EntryValues(entries) ==
    [i \in 1..Len(entries) |->
        IF entries[i].has THEN _score_value(entries[i].value) ELSE _score_value(NoneBlob)]

\* values[:3] in place of values[-3:], and values[0] in place of values[-1].
last_three_from_front(d) ==
    IF d.last_x_points.kind = "null" THEN Raised
    ELSE LET values == EntryValues(d.last_x_points.entries)
             n      == Len(values)
         IN  IF n >= 3 THEN Ok(values[1] + values[2] + values[3])
             ELSE IF n > 0 THEN Ok(3 * values[1])
             ELSE Ok(0)

\* last_three(), in thirds: mean(values[-3:]) is the sum of the three over 3.
last_three(d) ==
    IF d.last_x_points.kind = "null" THEN Raised     \* for s in None
    ELSE LET values == EntryValues(d.last_x_points.entries)
             n      == Len(values)
         IN  IF n >= 3 THEN Ok(values[n - 2] + values[n - 1] + values[n])
             ELSE IF n > 0 THEN Ok(3 * values[n])
             ELSE Ok(0)

\* The two weights exchanged: projection() * 0.3 + last_three() * 0.7.
score_weights_exchanged(d) ==
    LET p == projection(d)
        l == last_three(d)
    IN  IF ~p.ok \/ ~l.ok THEN Raised
        ELSE Ok(p.v * 9 + l.v * 7)

\* score(), in thirtieths: projection() * 0.7 + last_three() * 0.3.
score(d) ==
    LET p == projection(d)
        l == last_three(d)
    IN  IF ~p.ok \/ ~l.ok THEN Raised
        ELSE Ok(p.v * 21 + l.v * 3)

\* ------------------------------------------------------------- sorted
\* Python's sorted(xs, key=..., reverse=...) is stable in both directions:
\* elements with equal keys keep their relative input order.  xs[i] has key
\* keys[i]; Rank is the place xs[i] takes in the output.
\* A sort that gets descending order by reversing an ascending stable sort:
\* equal keys come out in reverse input order.
RankReversedTies(keys, reverse, i) ==
    1 + Cardinality({j \in 1..Len(keys) :
            \/ (IF reverse THEN keys[j] > keys[i] ELSE keys[j] < keys[i])
            \/ keys[j] = keys[i] /\ (IF reverse THEN j > i ELSE j < i)})

Rank(keys, reverse, i) ==
    1 + Cardinality({j \in 1..Len(keys) :
            \/ (IF reverse THEN keys[j] > keys[i] ELSE keys[j] < keys[i])
            \/ keys[j] = keys[i] /\ j < i})

sorted(xs, keys, reverse) ==
    [r \in 1..Len(xs) |-> xs[CHOOSE i \in 1..Len(xs) : Rank(keys, reverse, i) = r]]

\* ------------------------------------------------- recommend_upgrades
\* p.score() of a player of the pools (none of them raises).
Score(p) == score(p).v

\* The inner loop without the position test of line 109.
QualifiesAnyPosition(free_agent, roster_player, flag) ==
    Score(free_agent) - Score(roster_player) > 0

\* Lines 109-112: does the inner loop emit (free_agent, roster_player)?
Qualifies(free_agent, roster_player, flag) ==
    /\ ~(flag /\ position(free_agent) # position(roster_player))
    /\ Score(free_agent) - Score(roster_player) > 0

\* The subtraction of line 111 the other way round.
DiffSwapped(free_agent, roster_player) == Score(roster_player) - Score(free_agent)

\* Line 111: diff.
Diff(free_agent, roster_player) == Score(free_agent) - Score(roster_player)

\* A recommendation (free_agent, roster_player, diff).  The two players are
\* the objects of the input lists, named by their index there.
RecSwapped(c, r, d) == [candidate |-> r, replaced |-> c, diff |-> d]
Rec(c, r, d) == [candidate |-> c, replaced |-> r, diff |-> d]

\* A module-level `recommendations` list in place of the local one of line
\* 105: what earlier calls appended is still in it.
ReturnedWithEarlier(recs) == [raised |-> FALSE, recs |-> result.recs \o recs]

Returned(recs) == [raised |-> FALSE, recs |-> recs]
Threw          == [raised |-> TRUE, recs |-> <<>>]

Indices(xs) == [i \in 1..Len(xs) |-> i]
Scores(xs)  == [i \in 1..Len(xs) |-> Score(xs[i])]

\* xs.sort(key=lambda p: p.score(), reverse=...) on the argument itself.
ArgumentSortedInPlace(xs, reverse) == sorted(xs, Scores(xs), reverse)

\* Lines 98-104: list(xs) copies the argument and sorted builds one more list;
\* the argument keeps its elements and their order.
ArgumentAfterCall(xs, reverse) == xs

\* Lines 103-116 for non-empty inputs.
Recommendations(roster_list, free_agent_list, flag) ==
    LET roster_sorted == sorted(Indices(roster_list), Scores(roster_list), FALSE)
        free_sorted   == sorted(Indices(free_agent_list), Scores(free_agent_list), TRUE)
        Inner(rp) ==
            LET Emit(fa) == Qualifies(free_agent_list[fa], roster_list[rp], flag)
                hits     == SelectSeq(free_sorted, Emit)
            IN  [k \in 1..Len(hits) |->
                    Rec(hits[k], rp, Diff(free_agent_list[hits[k]], roster_list[rp]))]
        RECURSIVE Outer(_)
        Outer(rs) ==
            IF rs = <<>> THEN <<>>
            ELSE Inner(Head(rs)) \o (IF flag THEN <<>> ELSE Outer(Tail(rs)))
    IN  Outer(roster_sorted)

\* A variant that takes roster_sorted[0] before looking at the inputs, as the
\* standalone scripts do: IndexError on an empty roster.
recommend_upgrades_unguarded(roster_list, free_agent_list, flag) ==
    IF roster_list = <<>>
    THEN Threw
    ELSE Returned(Recommendations(roster_list, free_agent_list, flag))

recommend_upgrades(roster_list, free_agent_list, flag) ==
    IF roster_list = <<>> \/ free_agent_list = <<>>
    THEN Returned(<<>>)
    ELSE Returned(Recommendations(roster_list, free_agent_list, flag))

\* ======================================================================
\* Payloads and the extraction functions
\* ======================================================================
\* A collection-valued key of a payload: absent, null or a list.
Coll(k, items) == [kind |-> k, items |-> items]
AbsentColl     == Coll("absent", <<>>)
\* Iterating collection.get(key, []): nothing when absent, TypeError on None.
Iterable(c) == c.kind # "null"

\* A roster slot: its `league_player` key is absent (or null: .get returns
\* None for both) or a raw record (EmptyRecord is the empty mapping).  A group holds `slots`, a division
\* `teams`.
Slot(k, d)  == [kind |-> k, league_player |-> d]
EmptySlot   == Slot("absent", EmptyRecord)
Group(c)    == [slots |-> c]
Division(c) == [teams |-> c]

\* The four extraction functions.
Extractions ==
    {"roster_players_from_json", "free_agent_players_from_json", "scoreboard_rows",
     "standings_rows"}

\* A payload: None, or a mapping with any of the five collection keys.
PayloadKeys == {"groups", "players", "games", "matchups", "divisions"}
EmptyPayload ==
    [kind |-> "dict", groups |-> AbsentColl, players |-> AbsentColl,
     games |-> AbsentColl, matchups |-> AbsentColl, divisions |-> AbsentColl]
NonePayload == [EmptyPayload EXCEPT !.kind = "null"]
\* bool(payload): None and the empty mapping are falsy.
TruthyPayload(p) == p.kind = "dict" /\ \E k \in PayloadKeys : p[k].kind # "absent"

\* What an extraction function does: return a list, or raise.
Rows(items) == [raised |-> FALSE, items |-> items]
RowsRaised  == [raised |-> TRUE, items |-> <<>>]

\* `if league_player:` is true of a record with a key in it.
TruthySlot(slot) == slot.kind = "dict" /\ slot.league_player # EmptyRecord

\* The loop without `if league_player:`: a Player for every slot.
RECURSIVE SlotPlayersUnfiltered(_)
SlotPlayersUnfiltered(slots) ==
    IF slots = <<>> THEN <<>>
    ELSE <<Head(slots).league_player>> \o SlotPlayersUnfiltered(Tail(slots))

\* The loop over one group's slots: Player(league_player) per truthy slot.
RECURSIVE SlotPlayers(_)
SlotPlayers(slots) ==
    IF slots = <<>> THEN <<>>
    ELSE (IF TruthySlot(Head(slots)) THEN <<Head(slots).league_player>> ELSE <<>>)
            \o SlotPlayers(Tail(slots))

RECURSIVE GroupPlayers(_)
GroupPlayers(groups) ==
    IF groups = <<>> THEN <<>>
    ELSE SlotPlayers(Head(groups).slots.items) \o GroupPlayers(Tail(groups))

roster_players_from_json(roster_json) ==
    IF ~TruthyPayload(roster_json) THEN Rows(<<>>)           \* if not roster_json
    ELSE IF ~Iterable(roster_json.groups) THEN RowsRaised
    ELSE IF \E i \in 1..Len(roster_json.groups.items) :
                ~Iterable(roster_json.groups.items[i].slots) THEN RowsRaised
    ELSE Rows(GroupPlayers(roster_json.groups.items))

\* The listing with repeated records dropped: list(dict.fromkeys(...)).
RECURSIVE Deduplicated(_)
Deduplicated(xs) ==
    IF xs = <<>> THEN <<>>
    ELSE LET front == Deduplicated(SubSeq(xs, 1, Len(xs) - 1))
             x     == xs[Len(xs)]
         IN  IF \E i \in 1..Len(front) : front[i] = x THEN front ELSE Append(front, x)

free_agent_players_deduplicated(players_json) ==
    IF players_json.kind = "null" THEN RowsRaised
    ELSE IF ~Iterable(players_json.players) THEN RowsRaised
    ELSE Rows(Deduplicated(players_json.players.items))

\* [Player(p) for p in players_json.get("players", [])]
free_agent_players_from_json(players_json) ==
    IF players_json.kind = "null" THEN RowsRaised            \* None.get
    ELSE IF ~Iterable(players_json.players) THEN RowsRaised
    ELSE Rows(players_json.players.items)

\* ---------------------------------------------------- scoreboard_rows
\* One side of a game or matchup: the `home` / `away` key is absent or a
\* mapping with an optional `name`, an optional `team` mapping (itself with
\* an optional `name`) and a `score` blob (NoneBlob when there is none).
TeamRef(k, n)     == [kind |-> k, name |-> n]
NoTeamRef         == TeamRef("absent", ABSENT)
Side(k, n, t, sc) == [kind |-> k, name |-> n, team |-> t, score |-> sc]
AbsentSide        == Side("absent", ABSENT, NoTeamRef, NoneBlob)
Fixture(h, a)     == [home |-> h, away |-> a]

\* d.get(key, default) for a string-valued key.
GetOr(v, default) == IF v = ABSENT THEN default ELSE v

ScoreRow(h, hs, a, as) == [home |-> h, home_score |-> hs, away |-> a, away_score |-> as]

\* Lines 121-131: a row of the `games` shape.
GameRow(game) ==
    ScoreRow(GetOr(game.home.name, ""), _score_value(game.home.score),
             GetOr(game.away.name, ""), _score_value(game.away.score))

\* Lines 135-145: a row of the `matchups` shape, the name one level deeper.
SideName(side) ==
    IF side.team.kind = "absent" THEN GetOr(side.name, "")
    ELSE GetOr(side.team.name, GetOr(side.name, ""))
MatchupRow(matchup) ==
    ScoreRow(SideName(matchup.home), _score_value(matchup.home.score),
             SideName(matchup.away), _score_value(matchup.away.score))

GameRows(games)       == [i \in 1..Len(games) |-> GameRow(games[i])]
MatchupRows(matchups) == [i \in 1..Len(matchups) |-> MatchupRow(matchups[i])]

\* Both loops run and their rows are concatenated: no `if rows: return rows`.
scoreboard_rows_merged(scoreboard_json) ==
    IF scoreboard_json.kind = "null" THEN RowsRaised
    ELSE IF ~Iterable(scoreboard_json.games) \/ ~Iterable(scoreboard_json.matchups)
    THEN RowsRaised
    ELSE Rows(GameRows(scoreboard_json.games.items)
                \o MatchupRows(scoreboard_json.matchups.items))

scoreboard_rows(scoreboard_json) ==
    IF scoreboard_json.kind = "null" THEN RowsRaised         \* None.get
    ELSE IF ~Iterable(scoreboard_json.games) THEN RowsRaised
    ELSE IF scoreboard_json.games.items # <<>>
    THEN Rows(GameRows(scoreboard_json.games.items))          \* if rows: return rows
    ELSE IF ~Iterable(scoreboard_json.matchups) THEN RowsRaised
    ELSE Rows(MatchupRows(scoreboard_json.matchups.items))

\* ----------------------------------------------------- standings_rows
\* A team of the standings: optional rank and name, and a win/loss/tie record
\* under `record` and/or `recordOverall`, each absent or a mapping of
\* optional numbers.
Record(k, w, l, t) == [kind |-> k, wins |-> w, losses |-> l, ties |-> t]
AbsentRecord       == Record("absent", AbsentNum, AbsentNum, AbsentNum)
Team(r, n, rec, overall) ==
    [rank |-> r, name |-> n, record |-> rec, recordOverall |-> overall]

\* d.get(key): None when the key is absent.
None      == NumVal("null", 0)
NoneStr   == "<none>"
Get(v)    == IF v.kind = "absent" THEN None ELSE v
GetStr(v) == IF v = ABSENT THEN NoneStr ELSE v

StandingRow(r, n, w, l, t) ==
    [rank |-> r, name |-> n, wins |-> w, losses |-> l, ties |-> t]

\* record.get("ties") in place of record.get("ties", 0).
TiesPassedThrough(record) == Get(record.ties)

\* record.get("ties", 0)
Ties(record) == IF record.ties.kind = "absent" THEN NumVal("num", 0) ELSE record.ties

\* Lines 153-162: team.get("record", team.get("recordOverall", {})).
TeamRow(t) ==
    LET record == IF t.record.kind # "absent" THEN t.record
                  ELSE t.recordOverall        \* absent: the empty mapping
    IN  StandingRow(Get(t.rank), GetStr(t.name),
                    Get(record.wins), Get(record.losses), Ties(record))

RECURSIVE DivisionRows(_)
DivisionRows(divisions) ==
    IF divisions = <<>> THEN <<>>
    ELSE [i \in 1..Len(Head(divisions).teams.items) |->
                TeamRow(Head(divisions).teams.items[i])]
            \o DivisionRows(Tail(divisions))

\* division["teams"] in place of division.get("teams", []): KeyError when absent.
standings_rows_subscript(standings_json) ==
    IF standings_json.kind = "null" THEN RowsRaised
    ELSE IF ~Iterable(standings_json.divisions) THEN RowsRaised
    ELSE IF \E i \in 1..Len(standings_json.divisions.items) :
                standings_json.divisions.items[i].teams.kind # "list" THEN RowsRaised
    ELSE Rows(DivisionRows(standings_json.divisions.items))

standings_rows(standings_json) ==
    IF standings_json.kind = "null" THEN RowsRaised          \* None.get
    ELSE IF ~Iterable(standings_json.divisions) THEN RowsRaised
    ELSE IF \E i \in 1..Len(standings_json.divisions.items) :
                ~Iterable(standings_json.divisions.items[i].teams) THEN RowsRaised
    ELSE Rows(DivisionRows(standings_json.divisions.items))

\* ------------------------------------------- FleaflickerAPI.fetch_roster
\* A team id: None, the empty string or an id.
NoTeamId  == "<none>"
TeamIds   == {NoTeamId, "", "1234"}
TruthyId(t) == t # NoTeamId /\ t # ""

Fetched(requests, payload_kind) == [requests |-> requests, returned |-> payload_kind]

\* No `if not target_team: return None`: the request is sent whatever the id.
fetch_roster_always_requests(self_team_id, team_id) == Fetched(1, "response")

\* fetch_roster: the number of requests it sends and what it returns, None or
\* the response of the FetchRoster endpoint.
fetch_roster(self_team_id, team_id) ==
    LET target_team == IF TruthyId(team_id) THEN team_id ELSE self_team_id
    IN  IF ~TruthyId(target_team) THEN Fetched(0, "none") ELSE Fetched(1, "response")

\* ======================================================================
\* Entry points around the core
\* ======================================================================
\* No call of _score_value under way.  While one is, frame is its innermost
\* active call: the argument it was given, how many calls deep it is, and,
\* once the innermost call has its answer, the value on its way back.
NoFrame ==
    [active |-> FALSE, score_blob |-> Blob(<<>>, NoneLeaf), depth |-> 0,
     returning |-> FALSE, v |-> 0]

\* ------------------------------- the entry points that recommend upgrades
\* Dashboard.compare, the web _build_payload, the TUI's refresh_data.
Entries == {"compare", "web", "tui"}
\* The position filter: None, or the string of --position / ?position=.
Positions == {ABSENT, "", "QB"}

\* The flag each entry point gives recommend_upgrades: compare and
\* _build_payload pass match_position=bool(position); refresh_data passes
\* the two lists only, so the parameter takes its default, False.
match_position_of(entry, filter) ==
    IF entry \in {"compare", "web"} THEN TruthyStr(filter) ELSE FALSE

\* The recommendations an entry point computes from the players extracted.
Recommended(entry, filter, roster_players, free_agent_players) ==
    recommend_upgrades(roster_players, free_agent_players,
                       match_position_of(entry, filter))

NoVia == [entry |-> "", position |-> ABSENT]

\* ------------------------------------------------- FleaflickerAPI._get
\* Retry(total=3, ...) of _build_session.
total == 3

\* The endpoints the fetch_* methods pass to _get.
Paths ==
    {"FetchRoster", "FetchPlayerListing", "FetchLeagueScoreboard",
     "FetchLeagueStandings"}

\* What one attempt of the session's adapter meets: a transport error
\* (connection, timeout), a status of status_forcelist (429, 500, 502, 503,
\* 504), any other error status, a 200 whose body is not JSON, a 200 with JSON.
Attempts == {"transport", "status_retry", "status", "bad_json", "ok"}

\* The adapter sends the GET again after a transport error or a status of the
\* forcelist, while fewer than `total` retries were made.
Retries(attempts) ==
    /\ attempts[Len(attempts)] \in {"transport", "status_retry"}
    /\ Len(attempts) <= total

\* What session.get hands to _get at the end of its attempts: an exception
\* (ConnectionError, Timeout, RetryError: all RequestException) or a response.
session_get(attempts) ==
    LET last == attempts[Len(attempts)]
    IN  IF last \in {"transport", "status_retry"} THEN "RequestException"
        ELSE IF last = "status" THEN "error_response"
        ELSE IF last = "bad_json" THEN "not_json_response"
        ELSE "json_response"

ApiError   == [raised |-> TRUE, payload |-> FALSE]
JsonOf     == [raised |-> FALSE, payload |-> TRUE]

\* A _get that answers a body that is not JSON with an empty payload.
get_empty_on_bad_json(delivered) ==
    IF delivered \in {"json_response", "not_json_response"} THEN JsonOf ELSE ApiError

\* _get once session.get is over: raise_for_status() raises HTTPError (a
\* RequestException) on an error status, response.json() raises ValueError on
\* a body that is not JSON; both handlers raise ApiError.
_get(delivered) ==
    IF delivered = "json_response" THEN JsonOf ELSE ApiError

\* No call of _get yet.  Then: the number of calls so far, and for the last
\* one its path, the session.get calls it made, the attempts of the adapter,
\* and how it ended.
NoHttp ==
    [calls |-> 0, path |-> "", gets |-> 0, attempts |-> <<>>,
     phase |-> "idle", raised |-> FALSE, payload |-> FALSE]

\* --------------------------------------------- FleaflickerDashboardApp
\* The two callers of refresh_data: on_mount's `await self.refresh_data()`
\* and the callback of set_interval(10, self.refresh_data).
Tasks == {"mount", "timer"}

\* f"{x:.1f}" of a number given in thirtieths, as a count of tenths, and
\* f"{x:+.2f}", as a count of hundredths (no number of thirtieths is half-way).
Tenths(x30)     == (x30 + 1) \div 3
Hundredths(x30) == (10 * x30 + 1) \div 3

\* The cells add_row is given for a player, and whether building them raises.
Cells(d) ==
    <<name(d), position(d), team(d), Tenths(30 * projection(d).v),
      Tenths(10 * last_three(d).v), Tenths(score(d).v)>>
CellsRaise(players) == \E i \in 1..Len(players) : ~score(players[i]).ok

\* A table row; gen names the run of refresh_data that added it.
RowsOf(players, gen) ==
    [i \in 1..Len(players) |-> [gen |-> gen, cells |-> Cells(players[i])]]
RecommendationRows(roster_players, free_agent_players, gen) ==
    LET recs == recommend_upgrades(roster_players, free_agent_players, FALSE).recs
    IN  [i \in 1..Len(recs) |->
            [gen |-> gen,
             cells |-> <<name(free_agent_players[recs[i].candidate]),
                         name(roster_players[recs[i].replaced]),
                         Hundredths(recs[i].diff)>>]]

\* A DataTable.clear() that leaves the rows in place.
clear_keeps_rows(table) == table
\* DataTable.clear().
clear(table) == <<>>

\* The locals of a run of refresh_data.
NoLocals == [gen |-> 0, roster_json |-> EmptyPayload, free_agents_json |-> EmptyPayload]

\* The app before on_mount.  pc is where each caller's run of refresh_data
\* stands ("idle" when it has none); refreshes counts the runs started, done
\* the runs that reached the end, last tells how the latest run ended.
NoTui ==
    [mounted |-> FALSE, timer |-> FALSE, crashed |-> FALSE,
     roster_players |-> <<>>, free_agent_players |-> <<>>,
     roster_table |-> <<>>, free_agent_table |-> <<>>,
     recommendation_table |-> <<>>,
     pc |-> [t \in Tasks |-> "idle"], local |-> [t \in Tasks |-> NoLocals],
     refreshes |-> 0, done |-> 0, last |-> ""]

\* Threads in place of the event loop: a callback starts whenever it is due.
MayRunAnytime(app, t) == TRUE
\* The event loop runs one callback at a time, and refresh_data never awaits:
\* a run starts only when no other run is under way.
MayRun(app, t) == \A u \in Tasks \ {t} : app.pc[u] = "idle"

\* A caller enters refresh_data.
start(app, t) ==
    [app EXCEPT !.pc[t] = "fetch", !.refreshes = @ + 1,
                !.local[t] = [NoLocals EXCEPT !.gen = app.refreshes + 1]]

\* A handler that empties the tables before giving up.
fetch_failed_clears(app, t) ==
    [app EXCEPT !.pc[t] = "idle", !.local[t] = NoLocals, !.last = "failed",
                !.roster_table = <<>>, !.free_agent_table = <<>>,
                !.recommendation_table = <<>>]
\* except Exception: print the error and return.
fetch_failed(app, t) ==
    [app EXCEPT !.pc[t] = "idle", !.local[t] = NoLocals, !.last = "failed"]

\* An exception leaving refresh_data ends the app.
crash(app, t) == [app EXCEPT !.crashed = TRUE, !.last = "raised"]

\* Lines 63-64: the two extractions, assigned one after the other.
extract(app, t) ==
    LET r == roster_players_from_json(app.local[t].roster_json)
        f == free_agent_players_from_json(app.local[t].free_agents_json)
    IN  IF r.raised THEN crash(app, t)
        ELSE IF f.raised THEN crash([app EXCEPT !.roster_players = r.items], t)
        ELSE [app EXCEPT !.roster_players = r.items,
                         !.free_agent_players = f.items,
                         !.pc[t] = "clear"]

\* Lines 66-68.
clear_tables(app, t) ==
    [app EXCEPT !.roster_table = clear(@), !.free_agent_table = clear(@),
                !.recommendation_table = clear(@), !.pc[t] = "roster_rows"]

\* Lines 75-83, 85-93 and 95-101: a row per player, then per recommendation.
add_roster_rows(app, t) ==
    IF CellsRaise(app.roster_players) THEN crash(app, t)
    ELSE [app EXCEPT !.roster_table = @ \o RowsOf(app.roster_players, app.local[t].gen),
                     !.pc[t] = "free_agent_rows"]
add_free_agent_rows(app, t) ==
    IF CellsRaise(app.free_agent_players) THEN crash(app, t)
    ELSE [app EXCEPT !.free_agent_table =
                         @ \o RowsOf(app.free_agent_players, app.local[t].gen),
                     !.pc[t] = "recommendations"]
add_recommendations(app, t) ==
    [app EXCEPT !.recommendation_table =
                    @ \o RecommendationRows(app.roster_players, app.free_agent_players,
                                            app.local[t].gen),
                !.pc[t] = "idle", !.local[t] = NoLocals,
                !.done = @ + 1, !.last = "done"]

\* ------------------------------------ the standalone TUI (fleaflicker_tui.py)
\* get_projection: player.get("projections", {}).get("value", 0.0).  The
\* result is used as a number by hybrid_score: None or a mapping raises there.
get_projection(d) ==
    IF d.projections.kind = "absent" THEN Ok(0)
    ELSE IF d.projections.kind # "dict" THEN Raised
    ELSE IF d.projections.value.kind = "absent" THEN Ok(0)
    ELSE IF d.projections.value.kind = "num" THEN Ok(d.projections.value.n)
    ELSE Raised

\* s.get("value", {}).get("value", 0.0) for an entry of last_x_points: a
\* number, something that is no number ("junk"), or an AttributeError when
\* the entry's value is not a mapping.
LegacyValue(entry) ==
    IF ~entry.has THEN [kind |-> "num", n |-> 0]
    ELSE IF entry.value.wraps = <<>>
         THEN IF entry.value.leaf.kind = "dict" THEN [kind |-> "num", n |-> 0]
              ELSE [kind |-> "raise", n |-> 0]
    ELSE IF Len(entry.value.wraps) = 1 /\ entry.value.leaf.kind \in {"num", "bool"}
         THEN [kind |-> "num", n |-> entry.value.leaf.n]
    ELSE [kind |-> "junk", n |-> 0]

\* get_last_three_avg, in thirds.
get_last_three_avg(d) ==
    IF d.last_x_points.kind = "absent" THEN Ok(0)
    ELSE IF d.last_x_points.kind = "null" THEN Raised
    ELSE LET values == [i \in 1..Len(d.last_x_points.entries) |->
                           LegacyValue(d.last_x_points.entries[i])]
             n      == Len(values)
             used   == IF n >= 3 THEN {n - 2, n - 1, n} ELSE IF n > 0 THEN {n} ELSE {}
         IN  IF \E i \in 1..n : values[i].kind = "raise" THEN Raised
             ELSE IF \E i \in used : values[i].kind # "num" THEN Raised
             ELSE IF n >= 3 THEN Ok(values[n - 2].n + values[n - 1].n + values[n].n)
             ELSE IF n > 0 THEN Ok(3 * values[n].n)
             ELSE Ok(0)

\* hybrid_score, in thirtieths.
hybrid_score(d) ==
    LET p == get_projection(d)
        l == get_last_three_avg(d)
    IN  IF ~p.ok \/ ~l.ok THEN Raised
        ELSE Ok(p.v * 21 + l.v * 3)

\* The standalone recommend_upgrades(roster, free_agents): every free agent
\* above the worst roster player, best first, each against that player;
\* `difference` is rounded to two places.
legacy_recommend_upgrades(roster_list, free_agent_list) ==
    IF roster_list = <<>> \/ free_agent_list = <<>>
    THEN Returned(<<>>)
    ELSE LET roster_keys == [i \in 1..Len(roster_list) |-> hybrid_score(roster_list[i]).v]
             free_keys   == [i \in 1..Len(free_agent_list) |->
                                hybrid_score(free_agent_list[i]).v]
             sorted_roster == sorted(Indices(roster_list), roster_keys, FALSE)
             sorted_fa     == sorted(Indices(free_agent_list), free_keys, TRUE)
             worst_player  == sorted_roster[1]
             worst_score   == roster_keys[worst_player]
             Above(fa)     == free_keys[fa] > worst_score
             hits          == SelectSeq(sorted_fa, Above)
         IN  Returned([k \in 1..Len(hits) |->
                 Rec(hits[k], worst_player,
                     Hundredths(free_keys[hits[k]] - worst_score))])

\* ------------------------------------------------- web: /api/dashboard
\* `x or {}` on a payload.
OrEmpty(p) == IF TruthyPayload(p) THEN p ELSE EmptyPayload

\* _serialize_player: round(x, 1) as a count of tenths.
serialize_player(d) ==
    [name |-> name(d), position |-> position(d), team |-> team(d),
     projection |-> Tenths(30 * projection(d).v),
     last_three |-> Tenths(10 * last_three(d).v),
     score |-> Tenths(score(d).v)]
serialize_players(players) ==
    [i \in 1..Len(players) |-> serialize_player(players[i])]

\* _serialize_recommendations: round(diff, 2) as a count of hundredths.
serialize_recommendations(recs, roster_players, free_agent_players) ==
    [i \in 1..Len(recs) |->
        [free_agent |-> serialize_player(free_agent_players[recs[i].candidate]),
         replace    |-> serialize_player(roster_players[recs[i].replaced]),
         diff       |-> Hundredths(recs[i].diff)]]

\* The payload dict, or a response body: the keys it has and what they hold.
NoBody ==
    [sections |-> {}, position |-> "", roster |-> <<>>, free_agents |-> <<>>,
     recommendations |-> <<>>, scoreboard |-> <<>>, standings |-> <<>>]
Sections ==
    {"meta", "roster", "free_agents", "recommendations", "scoreboard", "standings"}

\* No request yet.  pc is where dashboard_data stands; roster_json to
\* free_agent_players and payload are the locals of _build_payload; status
\* and body are the response; raised_at names the step that raised, if any.
NoWeb ==
    [pc |-> "idle", position |-> ABSENT,
     roster_json |-> EmptyPayload, free_agents_json |-> EmptyPayload,
     roster_players |-> <<>>, free_agent_players |-> <<>>,
     payload |-> NoBody, status |-> 0, body |-> NoBody, raised_at |-> ""]

\* A handler that answers with what was built before the exception.
failed_with_partial_data(app, where) ==
    [app EXCEPT !.pc = "responded", !.status = 500, !.raised_at = where,
                !.body = [app.payload EXCEPT !.sections = @ \cup {"error"}]]
\* except Exception: jsonify({"error": str(exc)}), 500.
failed(app, where) ==
    [app EXCEPT !.pc = "responded", !.status = 500, !.raised_at = where,
                !.body = [NoBody EXCEPT !.sections = {"error"}]]

\* Lines 49-68: the players, the recommendations and the first four entries
\* of the payload.
build_players(app) ==
    LET r == roster_players_from_json(OrEmpty(app.roster_json))
        f == free_agent_players_from_json(OrEmpty(app.free_agents_json))
        flag == TruthyStr(app.position)
    IN  IF r.raised \/ f.raised THEN failed(app, "build")
        ELSE IF CellsRaise(r.items) \/ CellsRaise(f.items)
        THEN failed([app EXCEPT !.roster_players = r.items,
                                !.free_agent_players = f.items], "build")
        ELSE [app EXCEPT
                !.roster_players = r.items,
                !.free_agent_players = f.items,
                !.payload =
                    [NoBody EXCEPT
                        !.sections = {"meta", "roster", "free_agents", "recommendations"},
                        !.position = IF flag THEN app.position ELSE "Any",
                        !.roster = serialize_players(r.items),
                        !.free_agents = serialize_players(f.items),
                        !.recommendations =
                            serialize_recommendations(
                                recommend_upgrades(r.items, f.items, flag).recs,
                                r.items, f.items)],
                !.pc = "fetch_scoreboard"]

\* Line 69, once fetch_scoreboard has returned.
add_scoreboard(app, scoreboard_json) ==
    LET r == scoreboard_rows(OrEmpty(scoreboard_json))
    IN  IF r.raised THEN failed(app, "build")
        ELSE [app EXCEPT !.payload.sections = @ \cup {"scoreboard"},
                         !.payload.scoreboard = r.items,
                         !.pc = "fetch_standings"]

\* Line 70, once fetch_standings has returned, and jsonify(payload).
add_standings(app, standings_json) ==
    LET r == standings_rows(OrEmpty(standings_json))
    IN  IF r.raised THEN failed(app, "build")
        ELSE LET built == [app.payload EXCEPT !.sections = @ \cup {"standings"},
                                              !.standings = r.items]
             IN  [app EXCEPT !.payload = built, !.body = built, !.status = 200,
                             !.pc = "responded"]

\* ======================================================================
\* Inputs.  The specifications below each drive one part of the core
\* and leave the other parts' variables at their idle values.
\* ======================================================================
NoResult  == [called |-> FALSE, v |-> 0]
NoOut ==
    [called |-> FALSE, name |-> "", position |-> "", team |-> "",
     projection |-> Ok(0), last_three |-> Ok(0), score |-> Ok(0)]
NotCalled == [called |-> FALSE, raised |-> FALSE, recs |-> <<>>]

IdleScore  == blob = NoneBlob /\ sv = NoResult
IdlePlayer == data = EmptyRecord /\ out = NoOut
IdleRecommend ==
    roster = <<>> /\ free_agents = <<>> /\ match_position = FALSE /\ result = NotCalled
NoRows == [called |-> FALSE, fn |-> "", raised |-> FALSE, items |-> <<>>]
NoApi ==
    [called |-> FALSE, team_id |-> NoTeamId, arg |-> NoTeamId, requests |-> 0,
     returned |-> "none"]
IdleExtract == payload = EmptyPayload /\ rows = NoRows /\ api = NoApi
\* What each entry point of the core returned the first time it was called on
\* the inputs at hand (recommend_upgrades per flag, the extractions per
\* function, the accessors together).
NoEarlier ==
    [recommend |-> [flag \in BOOLEAN |-> NotCalled],
     extract   |-> [fn \in Extractions |-> NoRows],
     player    |-> NoOut]
\* The record after one more call: a first outcome stays.
First(before, now) == IF before.called THEN before ELSE now

\* Nothing recorded, no call of _score_value under way, no entry point used.
Quiet ==
    /\ earlier = NoEarlier /\ frame = NoFrame
    /\ via = NoVia /\ http = NoHttp /\ tui = NoTui /\ web = NoWeb

\* ------------------------------------------------ _score_value's inputs
InitScore ==
    /\ blob \in {Blob(<<>>, l) : l \in Leaves}
    /\ sv = NoResult
    /\ IdlePlayer /\ IdleRecommend /\ IdleExtract /\ Quiet

\* Put the blob under the "value" key of one more mapping.
Wrap(w) ==
    /\ ~sv.called /\ ~frame.active
    /\ Len(blob.wraps) < MaxDepth
    /\ blob' = Blob(<<w>> \o blob.wraps, blob.leaf)
    /\ UNCHANGED <<sv, data, out, roster, free_agents, match_position, result, payload, rows, api, earlier, frame, shell>>

CallScoreValue ==
    /\ ~sv.called
    /\ sv' = [called |-> TRUE, v |-> _score_value(blob)]
    /\ UNCHANGED <<blob, data, out, roster, free_agents, match_position, result, payload, rows, api, earlier, frame, shell>>

NextScore == (\E w \in {"plain", "extra"} : Wrap(w)) \/ CallScoreValue

SpecScore == InitScore /\ [][NextScore]_vars

\* ---------------------------------------- _score_value, call by call
\* The caller's call: _score_value(blob).
EnterScoreValue ==
    /\ ~sv.called /\ ~frame.active
    /\ frame' = [active |-> TRUE, score_blob |-> blob, depth |-> 1,
                 returning |-> FALSE, v |-> 0]
    /\ UNCHANGED <<blob, sv, data, out, roster, free_agents, match_position, result, payload, rows, api, earlier, shell>>

\* isinstance(score_blob, dict) and "value" in score_blob: the recursive call.
Descend ==
    /\ frame.active /\ ~frame.returning
    /\ frame.score_blob.wraps # <<>>
    /\ frame.depth < MaxStack
    /\ frame' = [frame EXCEPT !.score_blob = ValueEntry(@), !.depth = @ + 1]
    /\ UNCHANGED <<blob, sv, data, out, roster, free_agents, match_position, result, payload, rows, api, earlier, shell>>

\* A number, or anything that is not a mapping with a "value" key: the
\* innermost call returns float(score_blob) or 0.0 without calling further.
Answer ==
    /\ frame.active /\ ~frame.returning
    /\ frame.score_blob.wraps = <<>>
    /\ frame' = [frame EXCEPT !.returning = TRUE,
                              !.v = IF frame.score_blob.leaf.kind \in {"num", "bool"}
                                    THEN frame.score_blob.leaf.n
                                    ELSE 0]
    /\ UNCHANGED <<blob, sv, data, out, roster, free_agents, match_position, result, payload, rows, api, earlier, shell>>

\* return _score_value(score_blob["value"]): a call that recursed returns
\* what its callee returned.
Unwind ==
    /\ frame.returning /\ frame.depth > 1
    /\ frame' = [frame EXCEPT !.depth = @ - 1]
    /\ UNCHANGED <<blob, sv, data, out, roster, free_agents, match_position, result, payload, rows, api, earlier, shell>>

\* The caller's call returns.
ReturnScoreValue ==
    /\ frame.returning /\ frame.depth = 1
    /\ sv' = [called |-> TRUE, v |-> frame.v]
    /\ frame' = NoFrame
    /\ UNCHANGED <<blob, data, out, roster, free_agents, match_position, result, payload, rows, api, earlier, shell>>

RunScoreValue == Descend \/ Answer \/ Unwind \/ ReturnScoreValue

NextScoreSteps ==
    \/ \E w \in {"plain", "extra"} : Wrap(w)
    \/ EnterScoreValue
    \/ Descend
    \/ Answer
    \/ Unwind
    \/ ReturnScoreValue

\* A call that has started runs on: the interpreter executes it to its return.
SpecScoreSteps == InitScore /\ [][NextScoreSteps]_vars /\ WF_vars(RunScoreValue)

\* ------------------------------------------------------ Player's inputs
\* Numbers a projection key may hold, and the entries last_x_points may hold:
\* no "value" key, a bare number, a number wrapped in a mapping.
ProjNums  == {0, 1, 2}
EntryPool == {Entry(FALSE, NoneBlob), Entry(TRUE, Plain(1)), Entry(TRUE, Wrapped(2))}
Periods ==
    {Period("null", 0, AbsentNum), Period("dict", 0, AbsentNum),
     Period("dict", 0, NumVal("null", 0))}
        \cup {Period("num", n, AbsentNum) : n \in ProjNums}
        \cup {Period("dict", 0, NumVal("num", n)) : n \in ProjNums}

Count(b) == IF b THEN 1 ELSE 0
Max(a, b) == IF a >= b THEN a ELSE b

\* Keys present in the record: a mapping counts as its keys, or as one key
\* when it is empty; last_x_points counts as one whatever its length.
SubWeight(s) ==
    IF s.kind = "absent" THEN 0
    ELSE Max(1, Cardinality({k \in SubKeys : s.f[k] # ABSENT}))
ProjWeight(p) ==
    IF p.kind = "absent" THEN 0
    ELSE Max(1, Count(p.value.kind # "absent") + Count(p.weekly.kind # "absent")
                    + Count(p.season.kind # "absent"))
IdentWeight(d) ==
    SubWeight(d.pro_player) + SubWeight(d.proPlayer)
        + Cardinality({k \in TopKeys : d.top[k] # ABSENT})
NumericWeight(d) ==
    ProjWeight(d.projections) + ProjWeight(d.projection)
        + Count(d.last_x_points.kind # "absent")

\* The records enumerated.  name, position and team read only the identity
\* keys, projection, last_three and score only the numeric ones, so a record
\* varies one of the two groups and leaves the other absent.  score is the
\* one accessor that reads both the projection keys and last_x_points, each
\* through its own accessor: a record with points has one projection key at
\* most.
Fits(d) ==
    /\ IdentWeight(d) = 0 \/ NumericWeight(d) = 0
    /\ IdentWeight(d) + NumericWeight(d) <= MaxKeys
    /\ d.last_x_points.kind # "absent"
            => ProjWeight(d.projections) + ProjWeight(d.projection) <= 1
    /\ Len(d.last_x_points.entries) <= MaxPts

InitPlayer ==
    /\ data = EmptyRecord
    /\ out = NoOut
    /\ IdleScore /\ IdleRecommend /\ IdleExtract /\ Quiet

Build(d) ==
    /\ ~out.called
    /\ Fits(d)
    /\ data' = d
    /\ UNCHANGED <<blob, sv, out, roster, free_agents, match_position, result, payload, rows, api, earlier, frame, shell>>

SetTop ==
    \E k \in TopKeys, v \in StrVals :
        /\ data.top[k] = ABSENT
        /\ Build([data EXCEPT !.top[k] = v])

SetProPlayer ==
    \E which \in {"pro_player", "proPlayer"}, kind \in {"null", "dict", "str"} :
        /\ data[which].kind = "absent"
        /\ Build([data EXCEPT ![which] = Sub(kind, NoFields)])

SetProPlayerKey ==
    \E which \in {"pro_player", "proPlayer"}, k \in SubKeys, v \in StrVals :
        /\ data[which].kind = "dict"
        /\ data[which].f[k] = ABSENT
        /\ Build([data EXCEPT ![which].f[k] = v])

SetProjections ==
    \E which \in {"projections", "projection"}, kind \in {"null", "dict"} :
        /\ data[which].kind = "absent"
        /\ Build([data EXCEPT ![which].kind = kind])

SetProjectionValue ==
    \E which \in {"projections", "projection"},
       v \in {NumVal("null", 0)} \cup {NumVal("num", n) : n \in ProjNums} :
        /\ data[which].kind = "dict"
        /\ data[which].value.kind = "absent"
        /\ Build([data EXCEPT ![which].value = v])

SetProjectionPeriod ==
    \E which \in {"projections", "projection"}, per \in {"weekly", "season"},
       v \in Periods :
        /\ data[which].kind = "dict"
        /\ data[which][per].kind = "absent"
        /\ Build([data EXCEPT ![which][per] = v])

SetPoints ==
    \E kind \in {"null", "list"} :
        /\ data.last_x_points.kind = "absent"
        /\ Build([data EXCEPT !.last_x_points.kind = kind])

AppendPoints ==
    \E e \in EntryPool :
        /\ data.last_x_points.kind = "list"
        /\ Build([data EXCEPT !.last_x_points.entries = Append(@, e)])

\* Read the six accessors of Player(data); they can be read again.
ReadPlayer ==
    /\ out' = [called     |-> TRUE,
               name       |-> name(data),
               position   |-> position(data),
               team       |-> team(data),
               projection |-> projection(data),
               last_three |-> last_three(data),
               score      |-> score(data)]
    /\ earlier' = [earlier EXCEPT !.player = First(@, out')]
    /\ UNCHANGED <<blob, sv, data, roster, free_agents, match_position, result,
                   payload, rows, api, frame, shell>>

NextPlayer ==
    \/ SetTop \/ SetProPlayer \/ SetProPlayerKey
    \/ SetProjections \/ SetProjectionValue \/ SetProjectionPeriod
    \/ SetPoints \/ AppendPoints
    \/ ReadPlayer

SpecPlayer == InitPlayer /\ [][NextPlayer]_vars

\* ------------------------------------------ recommend_upgrades' inputs
\* Four raw records in the shapes the feed uses.  Scores, in thirtieths:
\* QbLow 21, WrLow 21 (a tie reached from different data), QbMid 42, WrHigh 63.
QbLow ==
    [EmptyRecord EXCEPT
        !.pro_player  = Sub("dict", [NoFields EXCEPT !["position"] = "QB",
                                                     !["name_full"] = "A"]),
        !.projections = ProjObj("dict", NumVal("num", 1), AbsentPeriod, AbsentPeriod)]
WrLow ==
    [EmptyRecord EXCEPT
        !.top["position"] = "WR",
        !.last_x_points   = Points("list", <<Entry(TRUE, Plain(2)), Entry(TRUE, Plain(2)),
                                             Entry(TRUE, Wrapped(3))>>)]
QbMid ==
    [EmptyRecord EXCEPT
        !.pro_player  = Sub("dict", [NoFields EXCEPT !["position"] = "QB"]),
        !.projections = ProjObj("dict", NumVal("num", 2), AbsentPeriod, AbsentPeriod)]
WrHigh ==
    [EmptyRecord EXCEPT
        !.proPlayer  = Sub("dict", [NoFields EXCEPT !["position"] = "WR"]),
        !.projection = ProjObj("dict", AbsentNum,
                               Period("dict", 0, NumVal("num", 3)), AbsentPeriod)]
PlayerPool == {QbLow, WrLow, QbMid, WrHigh}

InitRecommend ==
    /\ roster = <<>>
    /\ free_agents = <<>>
    /\ match_position = FALSE
    /\ result = NotCalled
    /\ IdleScore /\ IdlePlayer /\ IdleExtract /\ Quiet

AddRosterPlayer ==
    \E p \in PlayerPool :
        /\ ~result.called
        /\ Len(roster) < MaxRoster
        /\ roster' = Append(roster, p)
        /\ UNCHANGED <<blob, sv, data, out, free_agents, match_position, result, payload, rows, api, earlier, frame, shell>>

AddFreeAgent ==
    \E p \in PlayerPool :
        /\ ~result.called
        /\ Len(free_agents) < MaxFree
        /\ free_agents' = Append(free_agents, p)
        /\ UNCHANGED <<blob, sv, data, out, roster, match_position, result, payload, rows, api, earlier, frame, shell>>

\* One call of recommend_upgrades; the same lists can be passed again.
CallRecommendUpgrades ==
    \E flag \in BOOLEAN :
        /\ match_position' = flag
        /\ result' = LET r == recommend_upgrades(roster, free_agents, flag)
                     IN  [called |-> TRUE, raised |-> r.raised, recs |-> r.recs]
        /\ roster' = ArgumentAfterCall(roster, FALSE)
        /\ free_agents' = ArgumentAfterCall(free_agents, TRUE)
        /\ earlier' = [earlier EXCEPT !.recommend[flag] = First(@, result')]
        /\ UNCHANGED <<blob, sv, data, out, payload, rows, api, frame, shell>>

Next == AddRosterPlayer \/ AddFreeAgent \/ CallRecommendUpgrades

Spec == InitRecommend /\ [][Next]_vars

\* ------------------------------------------------ the extractions' inputs
MaxGroups == 2      \* groups of a roster, divisions of the standings
MaxItems  == 3      \* slots over all groups, teams over all divisions
MaxListed == 2      \* players of a listing, games, matchups

SlotPool ==
    {EmptySlot, Slot("dict", EmptyRecord), Slot("dict", QbLow), Slot("dict", WrHigh)}
ListingPool == {EmptyRecord, QbLow, WrHigh}
GamePool ==
    {Fixture(Side("dict", "G1H", NoTeamRef, Plain(1)),
             Side("dict", "G1A", NoTeamRef, Wrapped(2))),
     Fixture(AbsentSide, Side("dict", "G2A", NoTeamRef, NoneBlob))}
MatchupPool ==
    {Fixture(Side("dict", ABSENT, TeamRef("dict", "M1H"), Plain(2)),
             Side("dict", "M1A", NoTeamRef, Wrapped(1))),
     Fixture(Side("dict", "M2H", TeamRef("dict", ABSENT), NoneBlob), AbsentSide)}
TeamPool ==
    {Team(NumVal("num", 1), "T1",
          Record("dict", NumVal("num", 1), NumVal("num", 2), NumVal("num", 1)),
          AbsentRecord),
     Team(NumVal("num", 2), "T2", AbsentRecord,
          Record("dict", NumVal("num", 2), NumVal("num", 0), AbsentNum)),
     Team(AbsentNum, ABSENT, AbsentRecord, AbsentRecord),
     Team(NumVal("num", 1), "T4",
          Record("dict", AbsentNum, NumVal("num", 1), AbsentNum),
          Record("dict", NumVal("num", 2), NumVal("num", 2), NumVal("num", 2))),
     Team(NumVal("num", 2), "T5", Record("dict", AbsentNum, AbsentNum, AbsentNum),
          Record("dict", NumVal("num", 1), NumVal("num", 1), NumVal("num", 1)))}

\* The keys each extraction reads.  A payload is built for one of them: it
\* has no key of another's.
Reads(fn) ==
    CASE fn = "roster_players_from_json"     -> {"groups"}
      [] fn = "free_agent_players_from_json" -> {"players"}
      [] fn = "scoreboard_rows"              -> {"games", "matchups"}
      [] fn = "standings_rows"               -> {"divisions"}
OnlyKeys(p, keys) == \A k \in PayloadKeys \ keys : p[k].kind = "absent"

Sum(f) ==
    LET RECURSIVE Upto(_)
        Upto(n) == IF n = 0 THEN 0 ELSE f[n] + Upto(n - 1)
    IN  Upto(Len(f))
SlotCount(p) == Sum([i \in 1..Len(p.groups.items) |-> Len(p.groups.items[i].slots.items)])
TeamCount(p) ==
    Sum([i \in 1..Len(p.divisions.items) |-> Len(p.divisions.items[i].teams.items)])

InitExtract ==
    /\ payload = EmptyPayload
    /\ rows = NoRows
    /\ api = NoApi
    /\ IdleScore /\ IdlePlayer /\ IdleRecommend /\ Quiet

BuildPayload(p) ==
    /\ ~rows.called /\ ~api.called
    /\ payload' = p
    /\ UNCHANGED <<blob, sv, data, out, roster, free_agents, match_position, result,
                   rows, api, earlier, frame, shell>>

SetPayloadNone ==
    /\ payload = EmptyPayload
    /\ BuildPayload(NonePayload)

SetCollection ==
    \E fn \in Extractions, k \in PayloadKeys, kind \in {"null", "list"} :
        /\ k \in Reads(fn)
        /\ payload.kind = "dict"
        /\ OnlyKeys(payload, Reads(fn))
        /\ payload[k].kind = "absent"
        /\ BuildPayload([payload EXCEPT ![k].kind = kind])

AddGroup ==
    \E kind \in {"absent", "null", "list"} :
        /\ payload.groups.kind = "list"
        /\ Len(payload.groups.items) < MaxGroups
        /\ BuildPayload([payload EXCEPT
                            !.groups.items = Append(@, Group(Coll(kind, <<>>)))])

AddSlot ==
    \E slot \in SlotPool :
        LET n == Len(payload.groups.items) IN
        /\ n > 0
        /\ payload.groups.items[n].slots.kind = "list"
        /\ SlotCount(payload) < MaxItems
        /\ BuildPayload([payload EXCEPT
                            !.groups.items[n].slots.items = Append(@, slot)])

AddDivision ==
    \E kind \in {"absent", "null", "list"} :
        /\ payload.divisions.kind = "list"
        /\ Len(payload.divisions.items) < MaxGroups
        /\ BuildPayload([payload EXCEPT
                            !.divisions.items = Append(@, Division(Coll(kind, <<>>)))])

AddTeam ==
    \E t \in TeamPool :
        LET n == Len(payload.divisions.items) IN
        /\ n > 0
        /\ payload.divisions.items[n].teams.kind = "list"
        /\ TeamCount(payload) < MaxItems
        /\ BuildPayload([payload EXCEPT
                            !.divisions.items[n].teams.items = Append(@, t)])

AddListed ==
    \E k \in {"players", "games", "matchups"} :
        \E x \in (CASE k = "players"  -> ListingPool
                    [] k = "games"    -> GamePool
                    [] k = "matchups" -> MatchupPool) :
            /\ payload[k].kind = "list"
            /\ Len(payload[k].items) < MaxListed
            /\ BuildPayload([payload EXCEPT ![k].items = Append(@, x)])

\* FleaflickerAPI(league_id, team_id=t).fetch_roster(a), a being None as in
\* every call of the package or an id: the roster payload the caller goes on
\* with is None, or the endpoint's.
FetchRoster ==
    \E t \in TeamIds, a \in {NoTeamId, "1234"} :
        /\ ~rows.called /\ ~api.called
        /\ payload.kind = "dict" /\ OnlyKeys(payload, {"groups"})
        /\ LET f == fetch_roster(t, a) IN
              /\ api' = [called |-> TRUE, team_id |-> t, arg |-> a,
                         requests |-> f.requests, returned |-> f.returned]
              /\ payload' = IF f.returned = "none" THEN NonePayload ELSE payload
        /\ UNCHANGED <<blob, sv, data, out, roster, free_agents, match_position, result,
                       rows, earlier, frame, shell>>

Extract(fn, p) ==
    CASE fn = "roster_players_from_json"     -> roster_players_from_json(p)
      [] fn = "free_agent_players_from_json" -> free_agent_players_from_json(p)
      [] fn = "scoreboard_rows"              -> scoreboard_rows(p)
      [] fn = "standings_rows"               -> standings_rows(p)

\* Call one of the four extraction functions on the payload.
CallExtract ==
    \E fn \in Extractions :
        /\ OnlyKeys(payload, Reads(fn))
        /\ rows' = LET r == Extract(fn, payload)
                   IN  [called |-> TRUE, fn |-> fn, raised |-> r.raised, items |-> r.items]
        /\ earlier' = [earlier EXCEPT !.extract[fn] = First(@, rows')]
        /\ UNCHANGED <<blob, sv, data, out, roster, free_agents, match_position, result,
                       payload, api, frame, shell>>

NextExtract ==
    \/ SetPayloadNone \/ SetCollection
    \/ AddGroup \/ AddSlot \/ AddDivision \/ AddTeam \/ AddListed
    \/ FetchRoster
    \/ CallExtract

SpecExtract == InitExtract /\ [][NextExtract]_vars

\* ------------------------------------------------------ the whole core
\* Player, recommend_upgrades and the extraction functions share no state:
\* a behaviour of SpecCore drives one of the three, the other two staying idle.
NextCore ==
    \/ IdlePlayer /\ IdleExtract /\ Next
    \/ IdleRecommend /\ IdleExtract /\ NextPlayer
    \/ IdleRecommend /\ IdlePlayer /\ NextExtract

SpecCore == InitRecommend /\ [][NextCore]_vars

\* ------------------------------------ recommending from the entry points
\* An entry point, run with a position filter, recommends for the roster and
\* the free agents it has extracted.
Recommend(entry, filter) ==
    /\ ~result.called
    /\ via' = [entry |-> entry, position |-> filter]
    /\ match_position' = match_position_of(entry, filter)
    /\ result' = LET r == Recommended(entry, filter, roster, free_agents)
                 IN  [called |-> TRUE, raised |-> r.raised, recs |-> r.recs]
    /\ UNCHANGED <<blob, sv, data, out, roster, free_agents, payload, rows, api, earlier, frame, http, tui, web>>

NextEntry ==
    \/ AddRosterPlayer
    \/ AddFreeAgent
    \/ \E entry \in Entries, filter \in Positions : Recommend(entry, filter)

SpecEntry == InitRecommend /\ [][NextEntry]_vars

\* ------------------------------------------------ the TUI's refreshes
\* What the upstream answers a refresh with.  fetch_roster returns None when
\* no team id is set; a listing may hold null under `players`.
RosterOf(records) ==
    [EmptyPayload EXCEPT !.groups =
        Coll("list", <<Group(Coll("list", [i \in 1..Len(records) |->
                                              Slot("dict", records[i])]))>>)]
ListingOf(records) == [EmptyPayload EXCEPT !.players = Coll("list", records)]
RosterAnswers  == {NonePayload, RosterOf(<<QbLow, WrLow>>), RosterOf(<<WrLow>>)}
ListingAnswers ==
    {ListingOf(<<>>), ListingOf(<<QbMid>>), ListingOf(<<WrHigh, QbMid>>),
     [EmptyPayload EXCEPT !.players = Coll("null", <<>>)]}

\* on_mount: the tables are created and mounted, the interval is set, and
\* refresh_data is entered.
Mount ==
    /\ ~tui.mounted
    /\ tui' = start([tui EXCEPT !.mounted = TRUE, !.timer = TRUE], "mount")
    /\ UNCHANGED <<core, via, http, web>>

\* The interval's callback is due and the event loop runs it.
TimerFires ==
    /\ tui.mounted /\ tui.timer /\ ~tui.crashed
    /\ tui.pc["timer"] = "idle"
    /\ tui.refreshes < MaxRefresh
    /\ MayRun(tui, "timer")
    /\ tui' = start(tui, "timer")
    /\ UNCHANGED <<core, via, http, web>>

\* Lines 56-61: fetch_roster or fetch_free_agents raises.
FetchFails(t) ==
    /\ ~tui.crashed /\ tui.pc[t] = "fetch"
    /\ tui' = fetch_failed(tui, t)
    /\ UNCHANGED <<core, via, http, web>>

\* Lines 57-58: both fetches return.
FetchReturns(t) ==
    \E rj \in RosterAnswers, fj \in ListingAnswers :
        /\ ~tui.crashed /\ tui.pc[t] = "fetch"
        /\ tui' = [tui EXCEPT !.pc[t] = "extract",
                              !.local[t].roster_json = rj,
                              !.local[t].free_agents_json = fj]
        /\ UNCHANGED <<core, via, http, web>>

ExtractPlayers(t) ==
    /\ ~tui.crashed /\ tui.pc[t] = "extract"
    /\ tui' = extract(tui, t)
    /\ UNCHANGED <<core, via, http, web>>

ClearTables(t) ==
    /\ ~tui.crashed /\ tui.pc[t] = "clear"
    /\ tui' = clear_tables(tui, t)
    /\ UNCHANGED <<core, via, http, web>>

AddRosterRows(t) ==
    /\ ~tui.crashed /\ tui.pc[t] = "roster_rows"
    /\ tui' = add_roster_rows(tui, t)
    /\ UNCHANGED <<core, via, http, web>>

AddFreeAgentRows(t) ==
    /\ ~tui.crashed /\ tui.pc[t] = "free_agent_rows"
    /\ tui' = add_free_agent_rows(tui, t)
    /\ UNCHANGED <<core, via, http, web>>

AddRecommendations(t) ==
    /\ ~tui.crashed /\ tui.pc[t] = "recommendations"
    /\ tui' = add_recommendations(tui, t)
    /\ UNCHANGED <<core, via, http, web>>

NextTui ==
    \/ Mount
    \/ TimerFires
    \/ \E t \in Tasks : FetchFails(t)
    \/ \E t \in Tasks : FetchReturns(t)
    \/ \E t \in Tasks : ExtractPlayers(t)
    \/ \E t \in Tasks : ClearTables(t)
    \/ \E t \in Tasks : AddRosterRows(t)
    \/ \E t \in Tasks : AddFreeAgentRows(t)
    \/ \E t \in Tasks : AddRecommendations(t)

SpecTui == InitRecommend /\ [][NextTui]_vars

\* --------------------------------------------- requests to /api/dashboard
\* A player whose `projection` key holds null: projection() raises.
Unscorable ==
    [EmptyRecord EXCEPT !.projection = ProjObj("null", AbsentNum, AbsentPeriod, AbsentPeriod)]
WebListingAnswers == ListingAnswers \cup {ListingOf(<<QbMid, Unscorable>>)}
ScoreboardAnswers ==
    {EmptyPayload,
     [EmptyPayload EXCEPT !.games =
         Coll("list", <<Fixture(Side("dict", "G1H", NoTeamRef, Plain(1)),
                                Side("dict", "G1A", NoTeamRef, Wrapped(2)))>>)],
     [EmptyPayload EXCEPT !.games = Coll("null", <<>>)]}
StandingsAnswers ==
    {EmptyPayload,
     [EmptyPayload EXCEPT !.divisions =
         Coll("list", <<Division(Coll("list",
             <<Team(NumVal("num", 1), "T1",
                    Record("dict", NumVal("num", 1), NumVal("num", 2), NumVal("num", 1)),
                    AbsentRecord)>>))>>)],
     [EmptyPayload EXCEPT !.divisions = Coll("null", <<>>)]}

\* GET /api/dashboard on an app created with a position filter.
Request(filter) ==
    /\ web.pc \in {"idle", "responded"}
    /\ web' = [NoWeb EXCEPT !.pc = "fetch_roster", !.position = filter]
    /\ UNCHANGED <<core, via, http, tui>>

\* One of the four fetches raises.
WebFetchRaises ==
    /\ web.pc \in {"fetch_roster", "fetch_free_agents", "fetch_scoreboard", "fetch_standings"}
    /\ web' = failed(web, web.pc)
    /\ UNCHANGED <<core, via, http, tui>>

WebRosterFetched ==
    \E rj \in RosterAnswers :
        /\ web.pc = "fetch_roster"
        /\ web' = [web EXCEPT !.roster_json = rj, !.pc = "fetch_free_agents"]
        /\ UNCHANGED <<core, via, http, tui>>

WebFreeAgentsFetched ==
    \E fj \in WebListingAnswers :
        /\ web.pc = "fetch_free_agents"
        /\ web' = [web EXCEPT !.free_agents_json = fj, !.pc = "build"]
        /\ UNCHANGED <<core, via, http, tui>>

WebBuildPlayers ==
    /\ web.pc = "build"
    /\ web' = build_players(web)
    /\ UNCHANGED <<core, via, http, tui>>

WebScoreboardFetched ==
    \E sj \in ScoreboardAnswers :
        /\ web.pc = "fetch_scoreboard"
        /\ web' = add_scoreboard(web, sj)
        /\ UNCHANGED <<core, via, http, tui>>

WebStandingsFetched ==
    \E tj \in StandingsAnswers :
        /\ web.pc = "fetch_standings"
        /\ web' = add_standings(web, tj)
        /\ UNCHANGED <<core, via, http, tui>>

NextWeb ==
    \/ \E filter \in Positions : Request(filter)
    \/ WebFetchRaises
    \/ WebRosterFetched
    \/ WebFreeAgentsFetched
    \/ WebBuildPlayers
    \/ WebScoreboardFetched
    \/ WebStandingsFetched

SpecWeb == InitRecommend /\ [][NextWeb]_vars

\* ------------------------------------------------ FleaflickerAPI._get's calls
\* A fetch_* method calls _get(path, params), which calls session.get once.
CallGet(path) ==
    /\ http.phase # "sending"
    /\ http.calls < MaxCalls
    /\ http' = [calls |-> http.calls + 1, path |-> path, gets |-> 1,
                attempts |-> <<>>, phase |-> "sending", raised |-> FALSE,
                payload |-> FALSE]
    /\ UNCHANGED <<core, via, tui, web>>

\* One attempt inside session.get; after the last one _get returns or raises.
Attempt(met) ==
    /\ http.phase = "sending"
    /\ LET attempts == Append(http.attempts, met)
       IN  IF Retries(attempts)
           THEN http' = [http EXCEPT !.attempts = attempts]
           ELSE LET r == _get(session_get(attempts))
                IN  http' = [http EXCEPT !.attempts = attempts,
                                         !.phase = "done",
                                         !.raised = r.raised,
                                         !.payload = r.payload]
    /\ UNCHANGED <<core, via, tui, web>>

NextApi ==
    \/ \E path \in Paths : CallGet(path)
    \/ \E met \in Attempts : Attempt(met)

SpecApi == InitRecommend /\ [][NextApi]_vars

\* ======================================================================
\* Properties of recommend_upgrades (specification Spec)
\* ======================================================================
RosterIdx == 1..Len(roster)
FreeIdx   == 1..Len(free_agents)
RosterScore(i) == Score(roster[i])
FreeScore(j)   == Score(free_agents[j])
Recs     == result.recs
Returns  == result.called /\ ~result.raised
LowestRosterScore ==
    CHOOSE m \in {RosterScore(i) : i \in RosterIdx} : \A i \in RosterIdx : m <= RosterScore(i)

\* Exactly one roster player has the lowest score.
SingleLowest ==
    Cardinality({i \in RosterIdx : RosterScore(i) = LowestRosterScore}) = 1

\* C1: with match_position false, on a non-empty roster and a non-empty
\* free-agent pool, every recommendation replaces the single roster player of
\* the lowest score, and the result is exactly one recommendation per free
\* agent whose score strictly exceeds that score, in descending free-agent
\* score order.
C1_UnconstrainedOnlyWorst ==
    (Returns /\ ~match_position /\ roster # <<>> /\ free_agents # <<>> /\ SingleLowest) =>
        /\ \A k \in DOMAIN Recs : RosterScore(Recs[k].replaced) = LowestRosterScore
        /\ Len(Recs) = Cardinality({j \in FreeIdx : FreeScore(j) > LowestRosterScore})
        /\ \A j \in FreeIdx : FreeScore(j) > LowestRosterScore
                => \E k \in DOMAIN Recs : Recs[k].candidate = j
        /\ \A k, l \in DOMAIN Recs :
                k < l => FreeScore(Recs[k].candidate) >= FreeScore(Recs[l].candidate)

\* C2: with match_position true, the result holds a recommendation for every
\* (roster player, free agent) pair of equal position in which the free
\* agent's score strictly exceeds the roster player's.
C2_ConstrainedAllRosterPlayers ==
    (Returns /\ match_position) =>
        \A i \in RosterIdx, j \in FreeIdx :
            (position(free_agents[j]) = position(roster[i]) /\ FreeScore(j) > RosterScore(i))
                => \E k \in DOMAIN Recs : Recs[k].candidate = j /\ Recs[k].replaced = i

\* C3: with match_position true, no recommendation pairs a free agent and a
\* roster player of different positions, and none has a candidate score that
\* is not strictly greater than the replaced player's.
C3_ConstrainedSamePositionStrictlyBetter ==
    (Returns /\ match_position) =>
        \A k \in DOMAIN Recs :
            /\ position(free_agents[Recs[k].candidate]) = position(roster[Recs[k].replaced])
            /\ FreeScore(Recs[k].candidate) > RosterScore(Recs[k].replaced)

\* The spec's worked example, in the pool's scores: of the free agents QB 42,
\* WR 21 and QB 21 only the first upgrades a roster of QB 21 and WR 63.
C3_Witness ==
    /\ Returns /\ match_position
    /\ roster = <<QbLow, WrHigh>>
    /\ free_agents = <<QbMid, WrLow, QbLow>>
    /\ Len(Recs) = 1

\* C4: in either mode, every recommendation's diff is the candidate's score
\* minus the replaced player's score, and is strictly positive.
C4_DiffIsPositiveDifference ==
    Returns =>
        \A k \in DOMAIN Recs :
            /\ Recs[k].diff = FreeScore(Recs[k].candidate) - RosterScore(Recs[k].replaced)
            /\ Recs[k].diff > 0

C4_Witness ==
    /\ Returns
    /\ \E k, l \in DOMAIN Recs : Recs[k].diff # Recs[l].diff
    /\ \E j \in FreeIdx : FreeScore(j) = LowestRosterScore

\* C5: the result is an empty list, and nothing is raised, whenever the
\* roster or the free-agent pool is empty, whatever match_position is.
C5_EmptyInputEmptyResult ==
    (result.called /\ (roster = <<>> \/ free_agents = <<>>)) =>
        ~result.raised /\ Recs = <<>>

C5_Witness ==
    /\ result.called /\ match_position
    /\ roster = <<>>
    /\ Len(free_agents) = MaxFree

\* C6: ties are broken stably.  Free agents of equal score come out, for one
\* replaced player, in their input order; roster players of equal score are
\* processed in their input order, so the one processed first is the earliest
\* of them in the input.
C6_StableTieBreak ==
    Returns =>
        /\ \A k, l \in DOMAIN Recs :
              (k < l /\ Recs[k].replaced = Recs[l].replaced
                     /\ FreeScore(Recs[k].candidate) = FreeScore(Recs[l].candidate))
                  => Recs[k].candidate < Recs[l].candidate
        /\ \A k, l \in DOMAIN Recs :
              (k < l /\ RosterScore(Recs[k].replaced) = RosterScore(Recs[l].replaced))
                  => Recs[k].replaced <= Recs[l].replaced
        /\ Recs # <<>> =>
              \A i \in RosterIdx :
                  RosterScore(i) = RosterScore(Recs[1].replaced) => Recs[1].replaced <= i

C6_Witness ==
    /\ Returns
    /\ \E k, l \in DOMAIN Recs :
          /\ k < l /\ Recs[k].replaced = Recs[l].replaced
          /\ Recs[k].candidate # Recs[l].candidate
          /\ FreeScore(Recs[k].candidate) = FreeScore(Recs[l].candidate)
    /\ \E k, l \in DOMAIN Recs :
          /\ Recs[k].replaced # Recs[l].replaced
          /\ RosterScore(Recs[k].replaced) = RosterScore(Recs[l].replaced)

\* C28: in every recommendation returned the candidate is an element of the
\* free-agent input and the replaced player an element of the roster input,
\* and no pair of input elements (candidate, replaced) is emitted twice.
C28_PairsFromInputsOnce ==
    result.called =>
        /\ \A i \in 1..Len(result.recs) :
              /\ result.recs[i].candidate \in 1..Len(free_agents)
              /\ result.recs[i].replaced \in 1..Len(roster)
        /\ \A i, j \in 1..Len(result.recs) :
              (/\ result.recs[i].candidate = result.recs[j].candidate
               /\ result.recs[i].replaced = result.recs[j].replaced) => i = j

\* The pool holds the same record twice and both copies are recommended
\* against the same roster player: two pairs, not one pair twice.
C28_Witness ==
    /\ result.called /\ Len(free_agents) = 3 /\ Len(roster) = 2
    /\ free_agents[1] = free_agents[3]
    /\ \E i, j \in 1..Len(result.recs) :
          /\ result.recs[i].candidate = 1 /\ result.recs[j].candidate = 3
          /\ result.recs[i].replaced = result.recs[j].replaced

\* The (candidate, replaced) pairs of a list of recommendations, in order.
Pairs(recs) == [i \in 1..Len(recs) |-> <<recs[i].candidate, recs[i].replaced>>]

\* Both implementations score the record, and score it alike (the
\* standalone script reads projections.value and doubly nested points only).
ScoredAlike(d) == score(d).ok /\ hybrid_score(d).ok /\ score(d).v = hybrid_score(d).v
BothCanScore ==
    /\ \A i \in 1..Len(roster) : ScoredAlike(roster[i])
    /\ \A i \in 1..Len(free_agents) : ScoredAlike(free_agents[i])

\* C30: with match_position false the package's recommend_upgrades emits
\* the same sequence of (candidate, replaced) pairs as the standalone TUI's
\* recommend_upgrades, for every roster and pool that both can score.
C30_UnconstrainedMatchesLegacy ==
    (result.called /\ ~result.raised /\ ~match_position /\ BothCanScore) =>
        Pairs(result.recs) = Pairs(legacy_recommend_upgrades(roster, free_agents).recs)

\* ======================================================================
\* Properties of Player (specification SpecPlayer)
\* ======================================================================
\* C7: score() is projection() * 0.7 + last_three() * 0.3 (in thirtieths,
\* with last_three in thirds: 21 * projection + 3 * last_three), whatever
\* else the record holds.
C7_ScoreIsWeightedBlend ==
    (out.called /\ out.projection.ok /\ out.last_three.ok) =>
        /\ out.score.ok
        /\ out.score.v = 21 * out.projection.v + 3 * out.last_three.v

C7_Witness ==
    /\ out.called
    /\ out.projection.ok /\ out.projection.v > 0
    /\ out.last_three.ok /\ out.last_three.v > 0
    /\ Len(data.last_x_points.entries) >= 3

\* The number an entry of last_x_points stands for.
PointValue(e) == IF e.has /\ e.value.leaf.kind = "num" THEN e.value.leaf.n ELSE 0

\* C8: last_three() is the mean of the final three entries when there are
\* three or more (their sum, in thirds), the last entry's value alone when
\* there are one or two, and 0.0 when there are none.
C8_LastThree ==
    (out.called /\ data.last_x_points.kind # "null") =>
        LET e == data.last_x_points.entries
            n == Len(e)
        IN  /\ out.last_three.ok
            /\ n >= 3 => out.last_three.v =
                            PointValue(e[n - 2]) + PointValue(e[n - 1]) + PointValue(e[n])
            /\ n \in {1, 2} => out.last_three.v = 3 * PointValue(e[n])
            /\ n = 0 => out.last_three.v = 0

C8_Witness ==
    /\ out.called
    /\ Len(data.last_x_points.entries) = 4
    /\ PointValue(data.last_x_points.entries[1]) # PointValue(data.last_x_points.entries[4])

\* Every key of the record is absent or holds a value of the expected type:
\* nothing is null and pro_player is not a string.
NothingMalformed(d) ==
    /\ d.pro_player.kind \in {"absent", "dict"}
    /\ d.proPlayer.kind \in {"absent", "dict"}
    /\ d.last_x_points.kind \in {"absent", "list"}
    /\ \A which \in {"projections", "projection"} :
          /\ d[which].kind \in {"absent", "dict"}
          /\ d[which].value.kind \in {"absent", "num"}
          /\ \A per \in {"weekly", "season"} :
                /\ d[which][per].kind \in {"absent", "num", "dict"}
                /\ d[which][per].value.kind \in {"absent", "num"}

NoSubKey(d, keys) ==
    \A k \in keys : d.pro_player.f[k] = ABSENT /\ d.proPlayer.f[k] = ABSENT
NoTopKey(d, keys) == \A k \in keys : d.top[k] = ABSENT

\* C10: with keys missing from the raw record no accessor raises, and an
\* accessor none of whose keys is present returns its default: "Unknown",
\* "", "", 0.0, 0.0, 0.0.
C10_MissingFieldsGiveDefaults ==
    (out.called /\ NothingMalformed(data)) =>
        /\ out.name # RAISE /\ out.position # RAISE /\ out.team # RAISE
        /\ out.projection.ok /\ out.last_three.ok /\ out.score.ok
        /\ (NoSubKey(data, {"name_full", "nameFull", "name"})
                /\ NoTopKey(data, {"name_full", "nameFull", "displayName", "name"}))
              => out.name = "Unknown"
        /\ (NoSubKey(data, {"position"}) /\ NoTopKey(data, {"position"}))
              => out.position = ""
        /\ NoSubKey(data, {"pro_team_abbreviation", "proTeamAbbreviation", "pro_team",
                           "team_abbreviation", "teamAbbreviation"})
              => out.team = ""
        /\ (data.projections.kind = "absent" /\ data.projection.kind = "absent")
              => out.projection.v = 0
        /\ data.last_x_points.kind = "absent" => out.last_three.v = 0
        /\ (data.projections.kind = "absent" /\ data.projection.kind = "absent"
                /\ data.last_x_points.kind = "absent")
              => out.score.v = 0

\* A record whose pro_player holds a position and nothing else.
C10_Witness ==
    /\ out.called /\ NothingMalformed(data)
    /\ data.pro_player.kind = "dict" /\ data.pro_player.f["position"] = "A"
    /\ out.name = "Unknown" /\ out.team = "" /\ out.position = "A"

\* ======================================================================
\* Properties of _score_value (specification SpecScore)
\* ======================================================================
\* C9: _score_value returns the number for a plain number, the normalized
\* "value" entry for a mapping that has one, at any nesting depth, and 0.0 for
\* a string, None, a list or a mapping without "value"; it always returns.
\* (A bool is an int to isinstance, so it counts as its number.)
C9_ScoreValueNormalizes ==
    sv.called =>
        /\ blob.leaf.kind \in {"num", "bool"} => sv.v = blob.leaf.n
        /\ blob.leaf.kind \in {"str", "none", "list", "dict"} => sv.v = 0

C9_Witness ==
    /\ sv.called
    /\ Len(blob.wraps) = 2
    /\ blob.leaf.kind = "num" /\ blob.leaf.n # 0
    /\ sv.v = blob.leaf.n

\* C22: _score_value terminates on every finitely nested input.  A call that
\* has started eventually returns to its caller; while it runs, each recursive
\* call is one level further down the "value" entries of the argument, and
\* the call that answers is the one whose argument is the first value that is
\* a number, not a mapping, or a mapping without "value".
C22_ScoreValueTerminates ==
    /\ [](frame.active =>
            /\ frame.score_blob.leaf = blob.leaf
            /\ frame.returning => frame.score_blob.wraps = <<>>
            /\ ~frame.returning =>
                  /\ frame.depth + Len(frame.score_blob.wraps) = 1 + Len(blob.wraps)
                  /\ frame.score_blob.wraps =
                        SubSeq(blob.wraps, frame.depth, Len(blob.wraps)))
    /\ [](sv.called => sv.v = _score_value(blob))
    /\ (frame.active ~> sv.called)

\* Two levels down, the third call has reached a number and is returning it.
C22_Witness ==
    /\ frame.active /\ frame.returning /\ frame.depth = 3
    /\ Len(blob.wraps) = 2
    /\ blob.leaf.kind = "num" /\ frame.v = blob.leaf.n /\ frame.v # 0

\* ======================================================================
\* Further properties of Player (specification SpecPlayer)
\* ======================================================================
\* The mapping projection() is to read: `projections` when it is a mapping
\* with a key in it, else what the `projection` key holds.
ProjectionSource(d) ==
    IF d.projections.kind = "dict"
          /\ (d.projections.value.kind # "absent" \/ d.projections.weekly.kind # "absent"
                \/ d.projections.season.kind # "absent")
    THEN d.projections
    ELSE d.projection

\* C11: projection() resolves from the `projections` object, or from the
\* singular `projection` key as fallback; when the object's `value` key is
\* absent it takes the `value` of the nested `weekly`, or else `season`,
\* sub-object; whenever no value is resolved it returns 0.0, and it never
\* raises.
C11_ProjectionResolves ==
    out.called =>
        LET obj == ProjectionSource(data) IN
        /\ out.projection.ok
        /\ obj.value.kind = "num" => out.projection.v = obj.value.n
        /\ (obj.value.kind = "absent" /\ obj.weekly.kind = "dict"
                /\ obj.weekly.value.kind = "num")
              => out.projection.v = obj.weekly.value.n
        /\ (obj.value.kind = "absent" /\ obj.weekly.kind = "absent"
                /\ obj.season.kind = "dict" /\ obj.season.value.kind = "num")
              => out.projection.v = obj.season.value.n
        /\ (obj.value.kind \in {"absent", "null"} /\ obj.weekly.kind \in {"absent", "null"}
                /\ obj.season.kind \in {"absent", "null"})
              => out.projection.v = 0

\* C12: for a record with neither `pro_player` nor `proPlayer`, the name, the
\* position and the team are each the first non-empty value among the
\* record's own top-level keys (and the default when there is none).
C12_NoSubObjectReadsTopLevel ==
    (out.called /\ data.pro_player.kind = "absent" /\ data.proPlayer.kind = "absent") =>
        LET Present(keys) == {k \in keys : data.top[k] # ABSENT /\ data.top[k] # ""}
            NameKeys      == {"name_full", "nameFull", "displayName", "name"}
        IN  /\ IF Present(NameKeys) = {} THEN out.name = "Unknown"
               ELSE \E k \in Present(NameKeys) : out.name = data.top[k]
            /\ IF Present({"position"}) = {} THEN out.position = ""
               ELSE out.position = data.top["position"]
            /\ IF Present(TeamKeys) = {} THEN out.team = ""
               ELSE \E k \in Present(TeamKeys) : out.team = data.top[k]

\* The pro-player sub-object of a record: `pro_player` when it is a mapping
\* with a key in it, else `proPlayer`; NoFields when neither is.
SubObject(d) ==
    IF d.pro_player.kind = "dict" /\ d.pro_player.f # NoFields THEN d.pro_player.f
    ELSE IF d.proPlayer.kind = "dict" THEN d.proPlayer.f
    ELSE NoFields

\* The values name may return, in the order of the claim.
NameOrder(d) ==
    <<SubObject(d)["name_full"], SubObject(d)["nameFull"], SubObject(d)["name"],
      d.top["name_full"], d.top["nameFull"], d.top["displayName"], d.top["name"]>>

\* C13: name is the first non-empty value in the order: full name (either
\* spelling) then generic name on the sub-object, then the same on the record
\* itself; "Unknown" when there is none.  A later value is never returned
\* while an earlier one is non-empty.
C13_NameFirstNonEmptyInOrder ==
    (out.called /\ data.pro_player.kind # "str" /\ data.proPlayer.kind # "str") =>
        LET order       == NameOrder(data)
            NonEmpty(i) == order[i] # ABSENT /\ order[i] # ""
        IN  IF \A i \in 1..Len(order) : ~NonEmpty(i)
            THEN out.name = "Unknown"
            ELSE \E i \in 1..Len(order) :
                    /\ NonEmpty(i)
                    /\ \A j \in 1..(i - 1) : ~NonEmpty(j)
                    /\ out.name = order[i]

\* The sub-object has only the generic name, the record itself a full name:
\* the sub-object's is returned.
C13_Witness ==
    /\ out.called
    /\ data.pro_player.kind = "dict"
    /\ data.pro_player.f["name"] = "A" /\ data.top["name_full"] = "B"
    /\ out.name = "A"

\* ======================================================================
\* Properties of the extraction functions (specification SpecExtract)
\* ======================================================================
Extracted(fn) == rows.called /\ rows.fn = fn

\* No collection of the payload is null: each is a list or is absent.
NoNullCollection(p) ==
    /\ p.kind = "dict"
    /\ \A k \in PayloadKeys : p[k].kind # "null"
    /\ \A i \in 1..Len(p.groups.items) : p.groups.items[i].slots.kind # "null"
    /\ \A i \in 1..Len(p.divisions.items) : p.divisions.items[i].teams.kind # "null"

\* The slots of the roster payload, by group and place in the group, and the
\* occupied ones: those whose league_player is a record with a key in it.
SlotAt(g, s)  == payload.groups.items[g].slots.items[s]
SlotPlaces ==
    {gs \in (1..MaxGroups) \X (1..MaxItems) :
        /\ gs[1] <= Len(payload.groups.items)
        /\ gs[2] <= Len(payload.groups.items[gs[1]].slots.items)}
OccupiedPlaces ==
    {gs \in SlotPlaces :
        /\ SlotAt(gs[1], gs[2]).kind = "dict"
        /\ SlotAt(gs[1], gs[2]).league_player # EmptyRecord}
\* Group order, then slot order within the group.
Before(a, b) == a[1] < b[1] \/ (a[1] = b[1] /\ a[2] < b[2])

\* C14: roster_players_from_json returns one Player per occupied slot, in
\* group order and then slot order within each group, and skips every slot
\* that carries no player record: the output is as long as there are
\* occupied slots, and the Player of an occupied slot stands after those of
\* the occupied slots before it.
C14_RosterOnePlayerPerOccupiedSlot ==
    (Extracted("roster_players_from_json") /\ NoNullCollection(payload)) =>
        /\ ~rows.raised
        /\ Len(rows.items) = Cardinality(OccupiedPlaces)
        /\ \A gs \in OccupiedPlaces :
              rows.items[1 + Cardinality({o \in OccupiedPlaces : Before(o, gs)})]
                  = SlotAt(gs[1], gs[2]).league_player

\* Two groups, an empty slot between two occupied ones.
C14_Witness ==
    /\ Extracted("roster_players_from_json")
    /\ Len(payload.groups.items) = 2
    /\ Cardinality(SlotPlaces) = 3 /\ Cardinality(OccupiedPlaces) = 2
    /\ <<1, 2>> \in SlotPlaces \ OccupiedPlaces
    /\ rows.items = <<QbLow, WrHigh>>

\* C15: with no team id, neither configured nor passed, fetch_roster returns
\* None and sends no request; roster_players_from_json on a None (or empty)
\* roster payload returns an empty sequence and does not raise.
C15_NoTeamNoRequestEmptyRoster ==
    /\ (api.called /\ ~TruthyId(api.team_id) /\ ~TruthyId(api.arg)) =>
          (api.returned = "none" /\ api.requests = 0 /\ payload = NonePayload)
    /\ (Extracted("roster_players_from_json") /\ payload \in {NonePayload, EmptyPayload}) =>
          (~rows.raised /\ rows.items = <<>>)

\* The endpoint has a roster to give, no team id is known, and the roster
\* extracted from what fetch_roster returned is empty.
C15_Witness ==
    /\ api.called /\ api.team_id = "" /\ api.arg = NoTeamId
    /\ api.requests = 0
    /\ Extracted("roster_players_from_json")
    /\ payload = NonePayload
    /\ ~rows.raised /\ rows.items = <<>>

\* C16: free_agent_players_from_json returns exactly one Player per record of
\* `players`, in the payload's order: nothing sorted, filtered or dropped as
\* a duplicate.
C16_FreeAgentsAsListed ==
    (Extracted("free_agent_players_from_json") /\ NoNullCollection(payload)) =>
        /\ ~rows.raised
        /\ Len(rows.items) = Len(payload.players.items)
        /\ \A i \in 1..Len(payload.players.items) :
              rows.items[i] = payload.players.items[i]

\* The same record listed twice comes out twice.
C16_Witness ==
    /\ Extracted("free_agent_players_from_json")
    /\ Len(rows.items) = 2
    /\ rows.items[1] = WrHigh /\ rows.items[2] = WrHigh

\* C17: scoreboard_rows returns rows built only from `games` whenever `games`
\* yields at least one row, and rows built only from `matchups` when `games`
\* is absent or empty: one row per element of the one list, in its order, and
\* none from the other list.
C17_ScoreboardOneShape ==
    (Extracted("scoreboard_rows") /\ NoNullCollection(payload)) =>
        LET games    == payload.games.items
            matchups == payload.matchups.items
        IN  /\ ~rows.raised
            /\ games # <<>> =>
                  /\ Len(rows.items) = Len(games)
                  /\ \A i \in 1..Len(games) : rows.items[i] = GameRow(games[i])
            /\ games = <<>> =>
                  /\ Len(rows.items) = Len(matchups)
                  /\ \A i \in 1..Len(matchups) : rows.items[i] = MatchupRow(matchups[i])

\* Both lists have elements: the rows are the games'.
C17_Witness ==
    /\ Extracted("scoreboard_rows")
    /\ Len(payload.games.items) = 2 /\ Len(payload.matchups.items) = 2
    /\ Len(rows.items) = 2
    /\ rows.items[1].home = "G1H" /\ rows.items[1].away_score = 2

\* The teams of the standings payload, by division and place in the division.
TeamAt(d, t) == payload.divisions.items[d].teams.items[t]
TeamPlaces ==
    {dt \in (1..MaxGroups) \X (1..MaxItems) :
        /\ dt[1] <= Len(payload.divisions.items)
        /\ dt[2] <= Len(payload.divisions.items[dt[1]].teams.items)}

\* C18: standings_rows emits one row per team in division order then team
\* order; the row's wins, losses and ties are read from `record`, or from
\* `recordOverall` when the team has no `record`; ties is 0 when that record
\* has no ties entry, while wins and losses are None when it has none.
C18_StandingsRows ==
    (Extracted("standings_rows") /\ NoNullCollection(payload)) =>
        /\ ~rows.raised
        /\ Len(rows.items) = Cardinality(TeamPlaces)
        /\ \A dt \in TeamPlaces :
              LET t   == TeamAt(dt[1], dt[2])
                  row == rows.items[1 + Cardinality({o \in TeamPlaces : Before(o, dt)})]
                  rec == IF t.record.kind = "dict" THEN t.record ELSE t.recordOverall
                  Passed(v) == IF v.kind = "absent" THEN None ELSE v
              IN  /\ row.rank = Passed(t.rank)
                  /\ row.name = (IF t.name = ABSENT THEN NoneStr ELSE t.name)
                  /\ row.wins = Passed(rec.wins)
                  /\ row.losses = Passed(rec.losses)
                  /\ row.ties = (IF rec.ties.kind = "absent" THEN NumVal("num", 0)
                                 ELSE rec.ties)

\* Two divisions; a team read from recordOverall with ties defaulted, after
\* a team whose record has neither wins nor ties.
C18_Witness ==
    /\ Extracted("standings_rows")
    /\ TeamPlaces = {<<1, 1>>, <<2, 1>>} /\ Len(rows.items) = 2
    /\ TeamAt(1, 1).name = "T4" /\ TeamAt(2, 1).name = "T2"
    /\ rows.items[1].wins = None /\ rows.items[1].ties = NumVal("num", 0)
    /\ rows.items[2].wins = NumVal("num", 2) /\ rows.items[2].ties = NumVal("num", 0)

\* The collections an extraction iterates hold nothing: the top-level ones
\* are empty or absent, or every nested one is.
NothingToExtract(fn) ==
    CASE fn = "roster_players_from_json"     -> SlotPlaces = {}
      [] fn = "free_agent_players_from_json" -> payload.players.items = <<>>
      [] fn = "scoreboard_rows"              ->
            payload.games.items = <<>> /\ payload.matchups.items = <<>>
      [] fn = "standings_rows"               -> TeamPlaces = {}

\* C19: each of the four extraction functions, given a payload in which a
\* collection it reads (groups, slots, players, games, matchups, divisions,
\* teams) is empty or missing, does not raise; it returns an empty sequence
\* when the collections it reads hold nothing.
C19_EmptyOrMissingCollections ==
    (rows.called /\ NoNullCollection(payload)) =>
        /\ ~rows.raised
        /\ NothingToExtract(rows.fn) => rows.items = <<>>

\* Standings of two divisions, one without `teams` and one with none.
C19_Witness ==
    /\ Extracted("standings_rows")
    /\ Len(payload.divisions.items) = 2
    /\ payload.divisions.items[1].teams.kind = "absent"
    /\ payload.divisions.items[2].teams = Coll("list", <<>>)
    /\ ~rows.raised /\ rows.items = <<>>

\* ======================================================================
\* Frame property of the core (specification SpecCore)
\* ======================================================================
\* C20: no accessor, extraction function or recommend_upgrades call mutates
\* its inputs: a step after which a result is held (a call; the steps that
\* build the inputs come before any call) leaves the raw record, the payload
\* and the roster and free-agent sequences, order and content, as they were.
C20_InputsUnchangedByCalls ==
    [][(out'.called \/ result'.called \/ rows'.called) =>
            /\ data' = data
            /\ payload' = payload
            /\ roster' = roster
            /\ free_agents' = free_agents]_vars

\* recommend_upgrades has returned recommendations for a roster passed in
\* descending score order and free agents passed in ascending order: both
\* sorts had something to reorder.
C20_Witness ==
    /\ result.called /\ Len(result.recs) > 0
    /\ Len(roster) = 2 /\ Score(roster[1]) > Score(roster[2])
    /\ Len(free_agents) >= 2 /\ Score(free_agents[1]) < Score(free_agents[2])

C23_FetchFailureRaisesApiError ==
    /\ http.phase = "done" =>
          LET last == http.attempts[Len(http.attempts)]
          IN  /\ last # "ok" => http.raised /\ ~http.payload
              /\ last = "ok" => ~http.raised /\ http.payload
              /\ http.raised # http.payload
    /\ http.phase # "idle" =>
          /\ http.gets = 1
          /\ Len(http.attempts) <= total + 1

\* A second call of _get met a body that is not JSON and has raised.
C23_Witness ==
    /\ http.phase = "done" /\ http.calls = 2
    /\ http.attempts = <<"bad_json">>
    /\ http.raised

\* ======================================================================
\* Properties of the entry points (specification SpecEntry)
\* ======================================================================
\* C24: every entry point that recommends upgrades passes match_position
\* equal to whether a position filter is set, so that for the same roster,
\* free agents and filter the three entry points produce the same list.
C24_EntryPointsPassFilterFlag ==
    result.called =>
        /\ match_position = TruthyStr(via.position)
        /\ \A entry \in Entries :
              LET r == Recommended(entry, via.position, roster, free_agents)
              IN  r.raised = result.raised /\ r.recs = result.recs

\* ======================================================================
\* Properties of the TUI (specification SpecTui)
\* ======================================================================
\* What the app shows and keeps: its two lists and the rows of its tables.
Shown(app) ==
    <<app.roster_players, app.free_agent_players, app.roster_table,
      app.free_agent_table, app.recommendation_table>>

\* C25: a refresh whose fetch raises changes nothing.  Entering refresh_data
\* and leaving it on a failed fetch leave roster_players, free_agent_players
\* and the rows of the three tables as they were, and after the failed
\* refresh the interval is still set, the app still runs and the event loop
\* is free for the next refresh.
C25_FailedFetchChangesNothing ==
    [][\A t \in Tasks :
          /\ (tui.pc[t] = "idle" /\ tui'.pc[t] = "fetch") => Shown(tui') = Shown(tui)
          /\ (tui.pc[t] = "fetch" /\ tui'.pc[t] = "idle") =>
                /\ Shown(tui') = Shown(tui)
                /\ tui'.timer /\ ~tui'.crashed
                /\ tui'.refreshes = tui.refreshes /\ tui'.done = tui.done
                /\ \A u \in Tasks : tui'.pc[u] = "idle"]_vars

\* The timer's refresh failed at the fetch after the first refresh had filled
\* the tables: the rows of the first refresh are still there.
C25_Witness ==
    /\ tui.last = "failed" /\ tui.refreshes = 2 /\ tui.done = 1
    /\ Len(tui.roster_table) = 2 /\ Len(tui.recommendation_table) > 0
    /\ \A t \in Tasks : tui.pc[t] = "idle"

\* C26: once a refresh has completed, each table holds exactly the rows of
\* the current lists: one row per roster player, one per free agent and one
\* per recommendation for them, in order, whatever the refreshes before
\* (successful or failed) had put there.
C26_TablesHoldCurrentRows ==
    (tui.mounted /\ ~tui.crashed /\ \A t \in Tasks : tui.pc[t] = "idle") =>
        /\ Len(tui.roster_table) = Len(tui.roster_players)
        /\ Len(tui.free_agent_table) = Len(tui.free_agent_players)
        /\ \A i \in 1..Len(tui.roster_table) :
              tui.roster_table[i].cells = Cells(tui.roster_players[i])
        /\ \A i \in 1..Len(tui.free_agent_table) :
              tui.free_agent_table[i].cells = Cells(tui.free_agent_players[i])
        /\ LET recs == recommend_upgrades(tui.roster_players,
                                          tui.free_agent_players, FALSE).recs
           IN  /\ Len(tui.recommendation_table) = Len(recs)
               /\ \A i \in 1..Len(recs) :
                     /\ tui.recommendation_table[i].cells[1] =
                            name(tui.free_agent_players[recs[i].candidate])
                     /\ tui.recommendation_table[i].cells[2] =
                            name(tui.roster_players[recs[i].replaced])

\* A second successful refresh, with a shorter roster than the tables can
\* have held before and with recommendations.
C26_Witness ==
    /\ tui.done = 2 /\ tui.last = "done"
    /\ \A t \in Tasks : tui.pc[t] = "idle"
    /\ Len(tui.roster_table) = 1 /\ Len(tui.free_agent_table) = 2
    /\ Len(tui.recommendation_table) > 0

\* The rows of all three tables.
AllRows(app) == app.roster_table \o app.free_agent_table \o app.recommendation_table

\* C27: runs of refresh_data never interleave.  At most one run is under way
\* at any time, so no step of another run falls between the clearing of the
\* tables and the end of their filling, and the rows the tables hold all come
\* from one fetch.
C27_RefreshesNeverInterleave ==
    /\ Cardinality({t \in Tasks : tui.pc[t] # "idle"}) <= 1
    /\ \A i, j \in 1..Len(AllRows(tui)) : AllRows(tui)[i].gen = AllRows(tui)[j].gen

\* The timer's run is between clearing and the end of filling, after the
\* run of on_mount had filled the tables.
C27_Witness ==
    /\ tui.pc["timer"] = "free_agent_rows" /\ tui.pc["mount"] = "idle"
    /\ tui.done = 1
    /\ Len(tui.roster_table) > 0 /\ tui.roster_table[1].gen = 2

\* ======================================================================
\* Properties of the web endpoint (specification SpecWeb)
\* ======================================================================
\* C29: /api/dashboard is all-or-nothing.  If a fetch or the construction
\* of the payload raised, the response is status 500 with an `error` entry
\* and nothing else; otherwise it is status 200 with all six sections, the
\* roster and free agents being the players extracted from this request's
\* fetches and the recommendations those of recommend_upgrades on them.
C29_DashboardAllOrNothing ==
    web.pc = "responded" =>
        /\ web.raised_at # "" =>
              /\ web.status = 500
              /\ web.body = [NoBody EXCEPT !.sections = {"error"}]
        /\ web.raised_at = "" =>
              /\ web.status = 200
              /\ web.body.sections = Sections
              /\ web.roster_players =
                    roster_players_from_json(OrEmpty(web.roster_json)).items
              /\ web.free_agent_players =
                    free_agent_players_from_json(OrEmpty(web.free_agents_json)).items
              /\ web.body.roster = serialize_players(web.roster_players)
              /\ web.body.free_agents = serialize_players(web.free_agent_players)
              /\ web.body.recommendations =
                    serialize_recommendations(
                        recommend_upgrades(web.roster_players, web.free_agent_players,
                                           TruthyStr(web.position)).recs,
                        web.roster_players, web.free_agent_players)
        /\ web.status = 200 <=> web.raised_at = ""

\* The last fetch, of the standings, raised after the roster, the free
\* agents, recommendations and the scoreboard had been built.
C29_Witness ==
    /\ web.pc = "responded" /\ web.raised_at = "fetch_standings"
    /\ web.status = 500
    /\ Len(web.payload.roster) > 0 /\ Len(web.payload.recommendations) > 0
    /\ Len(web.payload.scoreboard) > 0

====
